---- MODULE Spec2Model ----
(***************************************************************************)
(* A model of the easyocr.js core pipeline (packages/core): the CTC greedy *)
(* decoder, the ignore-index synthesis, the detector preprocessing and the *)
(* recognize orchestrator with its line merging.                           *)
(*                                                                         *)
(* Numbers.  The code computes in IEEE doubles.  The model computes in     *)
(* integers: pixel coordinates are integers, thresholds are rationals      *)
(* given as numerator/denominator, and probabilities are fixed-point       *)
(* numbers in units of 1/Milli.  Floating-point rounding, NaN and          *)
(* overflow are outside the model.                                         *)
(*                                                                         *)
(* Strings.  A JavaScript string is modelled as the sequence of its        *)
(* characters (each a one-character TLA+ string); '' is << >>.             *)
(***************************************************************************)
EXTENDS Integers, Sequences, FiniteSets, TLC

VARIABLES
  dec,    \* the frame (arguments and locals) of one ctcGreedyDecode call
  ign,    \* the frame of one buildIgnoreIndices call, and of a probe of it
  prep,   \* the frame of one detectorPreprocess call
  ocr,    \* the frame of one recognize call
  grp,    \* the frame of one groupTextBoxes call and of a second call on its result
  mrg,    \* the frame of one mergeOcrResultsByLine call
  trc,    \* the frame of one recognize call whose awaits on traceStep are steps
  pair,   \* two recognize calls in flight and the DEFAULT_OCR_OPTIONS record they share
  adp,    \* the frame of one CraftRunner.run call after the session has answered
  ldr,    \* the frame of one loadSession call
  flt,    \* the frame of one detectorPreprocess call on a raster with its bytes
  pad,    \* the frame of one padToWidth call
  crp,    \* the frame of one cropBox call on a raster with its bytes
  rot,    \* the frame of a rotateImage call on a raster with its bytes and of the rotation back
  fsw,    \* the FsTraceWriter and its addStep calls
  det     \* detectorPostprocessDebug, its scan and its flood fill

vars == <<dec, ign, prep, ocr, grp, mrg, trc, pair, adp, ldr, flt, pad, crp, rot, fsw, det>>

(***************************************************************************)
(* Generic helpers                                                         *)
(***************************************************************************)
Range(s) == {s[i] : i \in 1..Len(s)}

Min2(a, b) == IF a <= b THEN a ELSE b

Max2(a, b) == IF a >= b THEN a ELSE b

Abs(a) == IF a < 0 THEN -a ELSE a

\* The unit of the fixed-point probabilities: p stands for p / Milli.
Milli == 10 * 10 * 10

\* Stands for a frame that is not in use in the specification at hand.
Idle == [pc |-> "idle"]

\* An optional value: Some(v) is v, NoSeq an undefined string or array,
\* NoNum an undefined number.
Some(v) == [some |-> TRUE, v |-> v]

NoSeq == [some |-> FALSE, v |-> << >>]

NoNum == [some |-> FALSE, v |-> 0]

\* opt ?? default
OrElse(opt, default) == IF opt.some THEN opt.v ELSE default

\* The truth value JavaScript gives an optional string: undefined and ''
\* are false.
Truthy(opt) == opt.some /\ opt.v # << >>

(***************************************************************************)
(* Bounds of the decoder inputs                                            *)
(***************************************************************************)
MaxSteps == 3

MaxClasses == 3

\* The logit rows a recognizer output is drawn from, for `classes` classes:
\* the all-zero row (a tie of all classes), a single peak at class c, and a
\* peak at class c with the runner-up at the next class.
RowPool(classes) ==
  {[c \in 1..classes |-> 0]}
    \cup {[c \in 1..classes |-> IF c = hi THEN 5 ELSE 0] : hi \in 1..classes}
    \cup {[c \in 1..classes |->
             IF c = hi THEN 5
             ELSE IF c = (hi % classes) + 1 THEN 3 ELSE 0] : hi \in 1..classes}

RECURSIVE Tensors(_, _)
\* All row-major logits buffers of shape [steps, classes] over RowPool.
Tensors(steps, classes) ==
  IF steps = 0 THEN {<< >>}
  ELSE {head \o tail : head \in RowPool(classes), tail \in Tensors(steps - 1, classes)}

Alphabet == <<"a", "b", "c", "d", "e">>

\* Charsets of every length up to the class count: the well-formed one has
\* classes - 1 characters, the others are too short or too long by one.
Charsets(classes) == {SubSeq(Alphabet, 1, n) : n \in 0..classes}

BlankIndices == {0, 1, 2}

IgnoreSets == {{}, {1}, {2}, {0, 1}, {0, 1, 2, 3}}

(***************************************************************************)
(* ctcGreedyDecode (recognizer.ts)                                         *)
(***************************************************************************)
\* charset[i] ?? '' : the character at JavaScript index i, '' out of range.
CharAt(charset, i) ==
  IF i >= 0 /\ i < Len(charset) THEN <<charset[i + 1]>> ELSE << >>

IndexToChar(index, charset, blankIndex) ==
  IF index = blankIndex THEN << >>
  ELSE IF blankIndex = 0 THEN CharAt(charset, index - 1)
  ELSE CharAt(charset, IF index > blankIndex THEN index - 1 ELSE index)

\* logits[t * classes + c] of the flat buffer (TLA+ sequences start at 1).
LogitAt(logits, classes, t, c) == logits[t * classes + c + 1]

\* The state of the argmax scan before any class was looked at:
\* maxLogit = -Infinity (finite = FALSE), bestIndex = 0.
ScanStart == [finite |-> FALSE, maxLogit |-> 0, bestIndex |-> 0]

ScanBestSkipsNothing(logits, classes, ignoreIdx, t, c, acc) ==
  LET score == LogitAt(logits, classes, t, c) IN
  IF (~acc.finite) \/ score > acc.maxLogit
  THEN [finite |-> TRUE, maxLogit |-> score, bestIndex |-> c]
  ELSE acc

\* One iteration of the first inner loop: class c against the running best.
ScanVisit(logits, classes, ignoreIdx, t, c, acc) ==
  IF c \in ignoreIdx THEN acc
  ELSE LET score == LogitAt(logits, classes, t, c) IN
       IF (~acc.finite) \/ score > acc.maxLogit
       THEN [finite |-> TRUE, maxLogit |-> score, bestIndex |-> c]
       ELSE acc

RECURSIVE ScanBest(_, _, _, _, _, _)
\* for (c = from; c < classes; c += 1) { ... } of the argmax scan.
ScanBest(logits, classes, ignoreIdx, t, from, acc) ==
  IF from >= classes THEN acc
  ELSE ScanBest(logits, classes, ignoreIdx, t, from + 1,
                ScanVisit(logits, classes, ignoreIdx, t, from, acc))

RECURSIVE ExpNeg(_)
\* Math.exp(-d) for a whole d >= 0, in units of 1/Milli (e^-1 = 0.368).
ExpNeg(d) == IF d <= 0 THEN Milli ELSE (ExpNeg(d - 1) * 368) \div Milli

RECURSIVE SumExp(_, _, _, _, _, _)
\* The second inner loop: the sum over the classes not ignored of
\* exp(logits[t, c] - maxLogit), in units of 1/Milli.
SumExp(logits, classes, ignoreIdx, t, from, maxLogit) ==
  IF from >= classes THEN 0
  ELSE (IF from \in ignoreIdx THEN 0
        ELSE ExpNeg(maxLogit - LogitAt(logits, classes, t, from)))
       + SumExp(logits, classes, ignoreIdx, t, from + 1, maxLogit)

\* 1 / sum in units of 1/Milli; 1 / 0 is +Infinity, which stands here as a
\* value above every probability.
ProbOf(sum) == IF sum = 0 THEN Milli * Milli ELSE (Milli * Milli) \div sum

RECURSIVE NegLn(_)
\* -Math.log(p / Milli) in units of 1/Milli, for p >= 1: the number of
\* factors e^0.1 = 1.105 that bring p up to 1.
NegLn(p) == IF p >= Milli THEN 0 ELSE 100 + NegLn((p * 1105) \div Milli + 1)

RECURSIVE ExpNegMilli(_)
\* Math.exp(-x / Milli) in units of 1/Milli, for x >= 0 (e^-0.1 = 0.905).
ExpNegMilli(x) ==
  IF x >= 100 THEN (ExpNegMilli(x - 100) * 905) \div Milli ELSE Milli - x

RECURSIVE IsqrtIn(_, _, _)
IsqrtIn(n, lo, hi) ==
  IF lo >= hi THEN lo
  ELSE LET mid == (lo + hi + 1) \div 2 IN
       IF mid * mid <= n THEN IsqrtIn(n, mid, hi) ELSE IsqrtIn(n, lo, mid - 1)

\* Math.trunc(Math.sqrt(n)) for a whole n >= 0.
Isqrt(n) == IsqrtIn(n, 0, Min2(n, 46340))

RECURSIVE SumNegLn(_)
SumNegLn(probs) ==
  IF probs = << >> THEN 0 ELSE NegLn(Head(probs)) + SumNegLn(Tail(probs))

\* custom_mean(maxProbs) = exp(logProd * 2 / sqrt(n)); 0 for no kept
\* probability and for a probability <= 0.
Confidence(maxProbs) ==
  IF Len(maxProbs) = 0 THEN 0
  ELSE IF \E i \in 1..Len(maxProbs) : maxProbs[i] <= 0 THEN 0
  ELSE ExpNegMilli((SumNegLn(maxProbs) * 2 * Milli)
                     \div Isqrt(Len(maxProbs) * Milli * Milli))

\* The frame at the entry of the for loop over the time steps.
DecodeEnter(logits, steps, classes, charset, blankIndex, ignoreIdx) ==
  [pc |-> "loop", logits |-> logits, steps |-> steps, classes |-> classes,
   charset |-> charset, blankIndex |-> blankIndex, ignoreIdx |-> ignoreIdx,
   maxProbs |-> << >>, text |-> << >>, prevIndex |-> -1, t |-> 0,
   confidence |-> 0,
   bestSeq |-> << >>,    \* history: bestIndex of every step so far
   emitted |-> << >>]    \* history: the class index of every appended character

LoopBodyNoCollapse(d) ==
  LET scan == ScanBest(d.logits, d.classes, d.ignoreIdx, d.t, 0, ScanStart)
      bestIndex == scan.bestIndex
      kept == bestIndex # d.blankIndex /\ bestIndex \notin d.ignoreIdx
      ch == IndexToChar(bestIndex, d.charset, d.blankIndex)
  IN [d EXCEPT !.text = IF kept THEN @ \o ch ELSE @,
               !.emitted = IF kept /\ ch # << >> THEN Append(@, bestIndex) ELSE @,
               !.prevIndex = bestIndex,
               !.bestSeq = Append(@, bestIndex),
               !.t = @ + 1]

\* One iteration of the loop over the time steps (the body for step d.t).
LoopBody(d) ==
  LET scan == ScanBest(d.logits, d.classes, d.ignoreIdx, d.t, 0, ScanStart)
      bestIndex == scan.bestIndex
      sum == IF scan.finite
             THEN SumExp(d.logits, d.classes, d.ignoreIdx, d.t, 0, scan.maxLogit)
             ELSE 0
      prob == ProbOf(sum)
      kept == bestIndex # d.blankIndex /\ bestIndex \notin d.ignoreIdx
      emit == kept /\ bestIndex # d.prevIndex
      ch == IndexToChar(bestIndex, d.charset, d.blankIndex)
  IN [d EXCEPT !.maxProbs = IF kept THEN Append(@, prob) ELSE @,
               !.text = IF emit THEN @ \o ch ELSE @,
               !.emitted = IF emit /\ ch # << >> THEN Append(@, bestIndex) ELSE @,
               !.prevIndex = bestIndex,
               !.bestSeq = Append(@, bestIndex),
               !.t = @ + 1]

\* The code after the loop: the confidence, and the return.
DecodeReturn(d) ==
  [d EXCEPT !.confidence = Confidence(d.maxProbs), !.pc = "done"]

RECURSIVE DecodeRun(_)
DecodeRun(d) == IF d.t < d.steps THEN DecodeRun(LoopBody(d)) ELSE DecodeReturn(d)

\* The whole call, as the orchestrator uses it: {text, confidence}.
CtcGreedyDecode(logits, steps, classes, charset, blankIndex, ignoreIdx) ==
  LET d == DecodeRun(DecodeEnter(logits, steps, classes, charset, blankIndex, ignoreIdx))
  IN [text |-> d.text, confidence |-> d.confidence]

(***************************************************************************)
(* Specification of the decoder alone                                      *)
(***************************************************************************)
InitCtc ==
  /\ ign = Idle
  /\ prep = Idle
  /\ ocr = Idle
  /\ grp = Idle
  /\ mrg = Idle
  /\ trc = Idle
  /\ pair = Idle
  /\ adp = Idle
  /\ ldr = Idle
  /\ flt = Idle
  /\ pad = Idle
  /\ crp = Idle
  /\ rot = Idle
  /\ fsw = Idle
  /\ det = Idle
  /\ \E steps \in 0..MaxSteps, classes \in 1..MaxClasses :
    \E logits \in Tensors(steps, classes), charset \in Charsets(classes),
       blankIndex \in BlankIndices, ignoreIdx \in IgnoreSets :
      dec = DecodeEnter(logits, steps, classes, charset, blankIndex, ignoreIdx)

CtcStep ==
  /\ dec.pc = "loop"
  /\ dec.t < dec.steps
  /\ dec' = LoopBody(dec)
  /\ UNCHANGED <<ign, prep, ocr, grp, mrg, trc, pair, adp, ldr, flt, pad, crp, rot, fsw, det>>

CtcReturn ==
  /\ dec.pc = "loop"
  /\ dec.t >= dec.steps
  /\ dec' = DecodeReturn(dec)
  /\ UNCHANGED <<ign, prep, ocr, grp, mrg, trc, pair, adp, ldr, flt, pad, crp, rot, fsw, det>>

NextCtc == CtcStep \/ CtcReturn

SpecCtc == InitCtc /\ [][NextCtc]_vars

(***************************************************************************)
(* buildIgnoreIndices (pipeline.ts)                                        *)
(***************************************************************************)
\* LANGUAGE_CHARS of languages.ts: the characters of each known language.
\* Its entries are not part of the sources at hand; 'en' holds 'A' and 'z'
\* (languages.test.ts), 'ja' stands with one character of its own.
KnownLanguages == {"en", "ja"}

LanguageChars(lang) ==
  IF lang = "en" THEN {"A", "z"} ELSE IF lang = "ja" THEN {"j"} ELSE {}

\* The default symbols: the ten digits, the 32 punctuation characters of
\* ASCII and the space.  The grave accent cannot be written in a TLA+
\* string and stands as "GRAVE".
DefaultSymbols ==
  <<"0", "1", "2", "3", "4", "5", "6", "7", "8", "9", "!", "\"", "#", "$", "%",
    "&", "'", "(", ")", "*", "+", ",", "-", ".", "/", ":", ";", "<", "=", ">",
    "?", "@", "[", "\\", "]", "^", "_", "GRAVE", "{", "|", "}", "~", " ">>

GetOutputIndexStrictlyAbove(charsetIndex, blankIndex) ==
  IF blankIndex = 0 THEN charsetIndex + 1
  ELSE IF charsetIndex > blankIndex THEN charsetIndex + 1 ELSE charsetIndex

\* getOutputIndex: the class index of the character at charset index i.
GetOutputIndex(charsetIndex, blankIndex) ==
  IF blankIndex = 0 THEN charsetIndex + 1
  ELSE IF charsetIndex >= blankIndex THEN charsetIndex + 1 ELSE charsetIndex

RECURSIVE PushIgnored(_, _, _, _, _)
\* for (i = from; i < charset.length; i++) if (set.has(charset[i]) is
\* `member`) ignoreIndices.push(getOutputIndex(i)).
PushIgnored(charset, blankIndex, set, member, from) ==
  IF from >= Len(charset) THEN << >>
  ELSE (IF (charset[from + 1] \in set) = member
        THEN <<GetOutputIndex(from, blankIndex)>> ELSE << >>)
       \o PushIgnored(charset, blankIndex, set, member, from + 1)

\* The characters the langList branch allows: the characters of the known
\* languages of the list and the symbols.
AllowedChars(recognizer, langList) ==
  UNION {LanguageChars(langList[i]) : i \in 1..Len(langList)}
    \cup Range(OrElse(recognizer.symbols, DefaultSymbols))

BuildIgnoreIndicesBlocklistFirst(recognizer, options) ==
  LET blankIndex == OrElse(recognizer.blankIndex, 0) IN
  IF Truthy(options.blocklist)
  THEN PushIgnored(recognizer.charset, blankIndex, Range(options.blocklist.v), TRUE, 0)
  ELSE IF Truthy(options.allowlist)
  THEN PushIgnored(recognizer.charset, blankIndex, Range(options.allowlist.v), FALSE, 0)
  ELSE IF options.langList.some /\ Len(options.langList.v) > 0
  THEN PushIgnored(recognizer.charset, blankIndex,
                   AllowedChars(recognizer, options.langList.v), FALSE, 0)
  ELSE << >>

BuildIgnoreIndices(recognizer, options) ==
  LET blankIndex == OrElse(recognizer.blankIndex, 0) IN
  IF Truthy(options.allowlist)
  THEN PushIgnored(recognizer.charset, blankIndex, Range(options.allowlist.v), FALSE, 0)
  ELSE IF Truthy(options.blocklist)
  THEN PushIgnored(recognizer.charset, blankIndex, Range(options.blocklist.v), TRUE, 0)
  ELSE IF options.langList.some /\ Len(options.langList.v) > 0
  THEN PushIgnored(recognizer.charset, blankIndex,
                   AllowedChars(recognizer, options.langList.v), FALSE, 0)
  ELSE << >>

(***************************************************************************)
(* Specification of the ignore-index synthesis alone                       *)
(***************************************************************************)
\* The blank indices the synthesis is tried with: undefined and -1 .. MaxBlank.
MaxBlank == 3

CharsetPool ==
  {<< >>, <<"A">>, <<"A", "z", "0">>, <<"0", "A", "j", "#", "x">>, <<"x", "A", "x", "z">>}

CharListPool == {NoSeq, Some(<< >>), Some(<<"A">>), Some(<<"x", "0">>)}

LangListPool ==
  {NoSeq, Some(<< >>), Some(<<"en">>), Some(<<"ja", "en">>), Some(<<"xx">>)}

SymbolsPool == {NoSeq, Some(<<"#">>)}

BlankPool == {NoNum} \cup {Some(b) : b \in (-1)..MaxBlank}

InitIgnore ==
  /\ dec = Idle
  /\ prep = Idle
  /\ ocr = Idle
  /\ grp = Idle
  /\ mrg = Idle
  /\ trc = Idle
  /\ pair = Idle
  /\ adp = Idle
  /\ ldr = Idle
  /\ flt = Idle
  /\ pad = Idle
  /\ crp = Idle
  /\ rot = Idle
  /\ fsw = Idle
  /\ det = Idle
  /\ \E charset \in CharsetPool, symbols \in SymbolsPool, blankIndex \in BlankPool,
        allowlist \in CharListPool, blocklist \in CharListPool, langList \in LangListPool :
       ign = [pc |-> "call",
              recognizer |-> [charset |-> charset, symbols |-> symbols,
                              blankIndex |-> blankIndex],
              options |-> [allowlist |-> allowlist, blocklist |-> blocklist,
                           langList |-> langList],
              ignoreIndices |-> << >>,
              probe |-> [charsetIndex |-> -1, classIndex |-> -1, char |-> << >>]]

\* buildIgnoreIndices(recognizer, resolved)
IgnoreBuild ==
  /\ ign.pc = "call"
  /\ ign' = [ign EXCEPT !.pc = "built",
                        !.ignoreIndices = BuildIgnoreIndices(ign.recognizer, ign.options)]
  /\ UNCHANGED <<dec, prep, ocr, grp, mrg, trc, pair, adp, ldr, flt, pad, crp, rot, fsw, det>>

\* One charset position taken through getOutputIndex and then through the
\* decoder's indexToChar, with the blank index recognize hands to both.
IgnoreProbe ==
  /\ ign.pc = "built"
  /\ \E k \in 0..(Len(ign.recognizer.charset) - 1) :
       LET blankIndex == OrElse(ign.recognizer.blankIndex, 0)
           classIndex == GetOutputIndex(k, blankIndex)
       IN ign' = [ign EXCEPT !.pc = "probed",
                             !.probe = [charsetIndex |-> k, classIndex |-> classIndex,
                                        char |-> IndexToChar(classIndex, ign.recognizer.charset,
                                                             blankIndex)]]
  /\ UNCHANGED <<dec, prep, ocr, grp, mrg, trc, pair, adp, ldr, flt, pad, crp, rot, fsw, det>>

NextIgnore == IgnoreBuild \/ IgnoreProbe

SpecIgnore == InitIgnore /\ [][NextIgnore]_vars

(***************************************************************************)
(* OcrOptions (types.ts)                                                   *)
(***************************************************************************)
\* A fraction num/den with den > 0: the value of an option or of a
\* quotient the code computes in floating point.
Rat(n, d) == [num |-> n, den |-> d]

\* The options the model reads, with their default values.
DEFAULT_OCR_OPTIONS ==
  [canvasSize |-> 2560, magRatio |-> Rat(1, 1), align |-> 32,
   minSize |-> 20, slopeThs |-> Rat(1, 10), ycenterThs |-> Rat(1, 2),
   heightThs |-> Rat(1, 2), widthThs |-> Rat(1, 2), addMargin |-> Rat(1, 10),
   xThs |-> Rat(1, 1), yThs |-> Rat(1, 2), mergeLines |-> TRUE,
   maxAngleDeg |-> 10, rotationInfo |-> << >>,
   textThreshold |-> Rat(700, Milli), lowText |-> Rat(400, Milli),
   linkThreshold |-> Rat(400, Milli),
   mean |-> <<Rat(485, Milli), Rat(456, Milli), Rat(406, Milli)>>,
   std |-> <<Rat(229, Milli), Rat(224, Milli), Rat(225, Milli)>>,
   allowlist |-> NoSeq, blocklist |-> NoSeq, langList |-> NoSeq,
   recognizer |-> [inputHeight |-> 64, inputWidth |-> 100, inputChannels |-> 1,
                   mean |-> Rat(1, 2), std |-> Rat(1, 2)]]

\* resolveOcrOptions with the spread of options over the defaults alone: a
\* given recognizer record replaces the default one.
ResolveOcrOptionsShallow(options, defaults) ==
  IF ~options.some THEN defaults ELSE options.v @@ defaults

\* resolveOcrOptions, DEFAULT_OCR_OPTIONS holding the record defaults: that
\* record itself when no options are given, otherwise a new record of the
\* given fields over the defaults, its recognizer the given recognizer
\* fields over the default recognizer.
ResolveOcrOptionsFrom(options, defaults) ==
  IF ~options.some THEN defaults
  ELSE [(options.v @@ defaults) EXCEPT
          !.recognizer = IF "recognizer" \in DOMAIN options.v
                         THEN options.v.recognizer @@ defaults.recognizer
                         ELSE defaults.recognizer]

ResolveOcrOptions(options) == ResolveOcrOptionsFrom(options, DEFAULT_OCR_OPTIONS)

(***************************************************************************)
(* detectorPreprocess (detector.ts) and resizeLongSide (utils.ts)          *)
(* An image is its width and height; its pixels are not modelled here.     *)
(***************************************************************************)
\* Math.min(options.canvasSize, Math.max(width, height) * options.magRatio)
TargetSize(image, options) ==
  LET maxDim == Max2(image.width, image.height) IN
  IF options.canvasSize * options.magRatio.den <= maxDim * options.magRatio.num
  THEN Rat(options.canvasSize, 1)
  ELSE Rat(maxDim * options.magRatio.num, options.magRatio.den)

\* resizeLongSide: scale = maxSide / maxDim, both sides floored and at
\* least 1; no padding (align is not used).
ResizeLongSide(image, maxSide, align) ==
  LET maxDim == Max2(image.width, image.height)
      scale == Rat(maxSide.num, maxSide.den * maxDim)
      targetWidth == Max2(1, (image.width * scale.num) \div scale.den)
      targetHeight == Max2(1, (image.height * scale.num) \div scale.den)
  IN [image |-> [width |-> targetWidth, height |-> targetHeight], scale |-> scale]

\* side % stride === 0 ? 0 : stride - (side % stride)
PadTo(side, stride) == IF side % stride = 0 THEN 0 ELSE stride - (side % stride)

DetectorPreprocess(image, options) ==
  LET targetSize == TargetSize(image, options)
      resized == ResizeLongSide(image, targetSize, options.align).image
      stride == IF options.align # 0 THEN options.align ELSE 32
      padBottom == PadTo(resized.height, stride)
      padRight == PadTo(resized.width, stride)
      padded == [width |-> resized.width + padRight,
                 height |-> resized.height + padBottom]
      \* toFloatImage keeps the size of the padded image and gives 3 channels
      floatImage == [width |-> padded.width, height |-> padded.height]
  IN [input |-> [shape |-> <<1, 3, floatImage.height, floatImage.width>>,
                 type |-> "float32"],
      resized |-> resized, padded |-> padded,
      padRight |-> padRight, padBottom |-> padBottom,
      scaleX |-> Rat(resized.width, image.width),
      scaleY |-> Rat(resized.height, image.height)]

(***************************************************************************)
(* Specification of the detector preprocessing alone                       *)
(***************************************************************************)
\* Images of every width and height up to MaxSide pixels.
MaxSide == 8

CanvasSizes == {4, 6, 16}

MagRatios == {Rat(1, 2), Rat(1, 1), Rat(3, 2)}

\* align 0 takes the `|| 32` branch of the stride.
Aligns == {0, 1, 2, 4}

InitPrep ==
  /\ dec = Idle
  /\ ign = Idle
  /\ ocr = Idle
  /\ grp = Idle
  /\ mrg = Idle
  /\ trc = Idle
  /\ pair = Idle
  /\ adp = Idle
  /\ ldr = Idle
  /\ flt = Idle
  /\ pad = Idle
  /\ crp = Idle
  /\ rot = Idle
  /\ fsw = Idle
  /\ det = Idle
  /\ \E w \in 1..MaxSide, h \in 1..MaxSide, c \in CanvasSizes,
        m \in MagRatios, a \in Aligns :
       prep = [pc |-> "call",
               image |-> [width |-> w, height |-> h],
               options |-> [canvasSize |-> c, magRatio |-> m, align |-> a]
                             @@ DEFAULT_OCR_OPTIONS,
               out |-> NoSeq]

PrepRun ==
  /\ prep.pc = "call"
  /\ prep' = [prep EXCEPT !.pc = "done",
                          !.out = Some(DetectorPreprocess(prep.image, prep.options))]
  /\ UNCHANGED <<dec, ign, ocr, grp, mrg, trc, pair, adp, ldr, flt, pad, crp, rot, fsw, det>>

NextPrep == PrepRun

SpecPrep == InitPrep /\ [][NextPrep]_vars

(***************************************************************************)
(* Boxes.  A point is <<x, y>> and a box is four points.  Coordinates are  *)
(* whole numbers of 1/Px pixel, so that the centre of a crop (width / 2)   *)
(* and a box rotated about it by a multiple of 90 degrees are exact.       *)
(* Lengths the code names in pixels (10, 1, minSize) are multiplied by Px. *)
(***************************************************************************)
Px == 1 + 1

\* The axis-aligned box [[x0,y0],[x1,y0],[x1,y1],[x0,y1]].
RectBox(x0, y0, x1, y1) == <<<<x0, y0>>, <<x1, y0>>, <<x1, y1>>, <<x0, y1>>>>

Xs(box) == {box[i][1] : i \in 1..4}

Ys(box) == {box[i][2] : i \in 1..4}

MinOf(S) == CHOOSE m \in S : \A n \in S : m <= n

MaxOf(S) == CHOOSE m \in S : \A n \in S : m >= n

\* Math.trunc of a coordinate: towards zero, to a whole pixel.
Trunc(v) == IF v >= 0 THEN (v \div Px) * Px ELSE -(((-v) \div Px) * Px)

\* Math.trunc(ratio * length) for a length >= 0, as a whole pixel.
TruncScaled(ratio, length) == ((ratio.num * length) \div (ratio.den * Px)) * Px

\* The squared length of the segment from p to q.
Hypot2(p, q) == (q[1] - p[1]) * (q[1] - p[1]) + (q[2] - p[2]) * (q[2] - p[2])

\* |a / b| < ratio, for b > 0.
QuotientBelow(a, b, ratio) == Abs(a) * ratio.den < ratio.num * b

(***************************************************************************)
(* Stable sorting, as Array.prototype.sort does it, for the comparators of *)
(* the code: each orders by one key or by two keys lexicographically.  The *)
(* items are [key |-> <<k1, k2>>, item |-> ...].                           *)
(***************************************************************************)
KeyLess(a, b) == a[1] < b[1] \/ (a[1] = b[1] /\ a[2] < b[2])

\* Puts e behind the last item whose key is not greater.
InsertSorted(sorted, e) ==
  LET pos == Cardinality({i \in 1..Len(sorted) : ~KeyLess(e.key, sorted[i].key)})
  IN SubSeq(sorted, 1, pos) \o <<e>> \o SubSeq(sorted, pos + 1, Len(sorted))

RECURSIVE SortKeyed(_)
SortKeyed(keyed) ==
  IF keyed = << >> THEN << >>
  ELSE InsertSorted(SortKeyed(SubSeq(keyed, 1, Len(keyed) - 1)), keyed[Len(keyed)])

Items(keyed) == [i \in 1..Len(keyed) |-> keyed[i].item]

RECURSIVE Flatten(_)
\* flatMap(x => x) of a sequence of sequences.
Flatten(seqs) == IF seqs = << >> THEN << >> ELSE Head(seqs) \o Flatten(Tail(seqs))

\* reduce((a, b) => a + b, 0)
SumOf(numbers) ==
  LET F[i \in 0..Len(numbers)] == IF i = 0 THEN 0 ELSE F[i - 1] + numbers[i]
  IN F[Len(numbers)]

(***************************************************************************)
(* groupTextBoxes (detector.ts)                                            *)
(***************************************************************************)
\* poly: the eight truncated coordinates x1,y1,...,x4,y4 (poly[0..7] of the
\* code are poly[1..8] here).
PolyOf(box) ==
  <<Trunc(box[1][1]), Trunc(box[1][2]), Trunc(box[2][1]), Trunc(box[2][2]),
    Trunc(box[3][1]), Trunc(box[3][2]), Trunc(box[4][1]), Trunc(box[4][2])>>

\* max(|slopeUp|, |slopeDown|) < slopeThs
IsHorizontalPoly(poly, options) ==
  /\ QuotientBelow(poly[4] - poly[2], Max2(10 * Px, poly[3] - poly[1]), options.slopeThs)
  /\ QuotientBelow(poly[6] - poly[8], Max2(10 * Px, poly[5] - poly[7]), options.slopeThs)

\* [xMin, xMax, yMin, yMax, 0.5 * (yMin + yMax), yMax - yMin]; the centre
\* is kept doubled (yCenter2) to stay whole.
HorizontalEntry(poly) ==
  LET xs == {poly[1], poly[3], poly[5], poly[7]}
      ys == {poly[2], poly[4], poly[6], poly[8]}
  IN [xMin |-> MinOf(xs), xMax |-> MaxOf(xs), yMin |-> MinOf(ys), yMax |-> MaxOf(ys),
      yCenter2 |-> MinOf(ys) + MaxOf(ys), height |-> MaxOf(ys) - MinOf(ys)]

\* Math.trunc(1.44 * addMargin * Math.min(width, height)) of a free box.
FreeMargin(poly, options) ==
  LET height2 == Hypot2(<<poly[1], poly[2]>>, <<poly[7], poly[8]>>)
      width2 == Hypot2(<<poly[1], poly[2]>>, <<poly[3], poly[4]>>)
      a == options.addMargin
  IN Isqrt((36 * 36 * a.num * a.num * Min2(width2, height2))
             \div (25 * 25 * a.den * a.den * Px * Px)) * Px

\* margin * cos(atan(dy / dx)) and margin * sin(atan(dy / dx)) for dx > 0,
\* rounded towards zero to a coordinate unit (exact for margin = 0).
CosShare(margin, dy, dx) == (margin * dx) \div Max2(1, Isqrt(dx * dx + dy * dy))

SinShare(margin, dy, dx) == (margin * Abs(dy)) \div Max2(1, Isqrt(dx * dx + dy * dy))

\* The free box: the poly pushed outwards by the margin along its diagonals.
FreeEntry(poly, options) ==
  LET margin == FreeMargin(poly, options)
      dy13 == poly[2] - poly[6]
      dx13 == Max2(10 * Px, poly[1] - poly[5])
      dy24 == poly[4] - poly[8]
      dx24 == Max2(10 * Px, poly[3] - poly[7])
  IN <<<<poly[1] - CosShare(margin, dy13, dx13), poly[2] - SinShare(margin, dy13, dx13)>>,
       <<poly[3] + CosShare(margin, dy24, dx24), poly[4] - SinShare(margin, dy24, dx24)>>,
       <<poly[5] + CosShare(margin, dy13, dx13), poly[6] + SinShare(margin, dy13, dx13)>>,
       <<poly[7] - CosShare(margin, dy24, dx24), poly[8] + SinShare(margin, dy24, dx24)>>>>

\* bHeight and bYcenter (doubled): the heights and centres of the boxes of
\* the open line or run, which the code keeps in step with newBox.
BHeight(newBox) == [i \in 1..Len(newBox) |-> newBox[i].height]

BYcenter2(newBox) == [i \in 1..Len(newBox) |-> newBox[i].yCenter2]

\* |meanY - poly[4]| < ycenterThs * meanH over the boxes of the open line.
SameTextLine(newBox, poly, options) ==
  LET n == Len(newBox) IN
  Abs(SumOf(BYcenter2(newBox)) - n * poly.yCenter2) * options.ycenterThs.den
    < 2 * options.ycenterThs.num * SumOf(BHeight(newBox))

RECURSIVE CombineLines(_, _, _, _, _)
\* The first loop over the sorted horizontal entries: consecutive entries
\* of one text line.
CombineLines(horizontalList, i, combinedList, newBox, options) ==
  IF i > Len(horizontalList)
  THEN IF newBox # << >> THEN Append(combinedList, newBox) ELSE combinedList
  ELSE LET poly == horizontalList[i] IN
       IF newBox = << >>
       THEN CombineLines(horizontalList, i + 1, combinedList, <<poly>>, options)
       ELSE IF SameTextLine(newBox, poly, options)
       THEN CombineLines(horizontalList, i + 1, combinedList, Append(newBox, poly), options)
       ELSE CombineLines(horizontalList, i + 1, Append(combinedList, newBox), <<poly>>, options)

\* |meanH - box[5]| < heightThs * meanH && box[0] - xMax < widthThs * (box[3] - box[2])
JoinsRun(newBox, box, options) ==
  LET n == Len(newBox)
      sumH == SumOf(BHeight(newBox))
      xMax == newBox[n].xMax
  IN /\ Abs(sumH - n * box.height) * options.heightThs.den < options.heightThs.num * sumH
     /\ (box.xMin - xMax) * options.widthThs.den
          < options.widthThs.num * (box.yMax - box.yMin)

RECURSIVE SplitRuns(_, _, _, _, _)
\* The loop over one line sorted by xMin: runs of boxes close to each other.
SplitRuns(boxesInLine, i, mergedBox, newBox, options) ==
  IF i > Len(boxesInLine)
  THEN IF newBox # << >> THEN Append(mergedBox, newBox) ELSE mergedBox
  ELSE LET box == boxesInLine[i] IN
       IF newBox = << >>
       THEN SplitRuns(boxesInLine, i + 1, mergedBox, <<box>>, options)
       ELSE IF JoinsRun(newBox, box, options)
       THEN SplitRuns(boxesInLine, i + 1, mergedBox, Append(newBox, box), options)
       ELSE SplitRuns(boxesInLine, i + 1, Append(mergedBox, newBox), <<box>>, options)

\* [xMin - margin, xMax + margin, yMin - margin, yMax + margin] with
\* margin = Math.trunc(addMargin * Math.min(width, height)).
WithMargin(xMin, xMax, yMin, yMax, options) ==
  LET margin == TruncScaled(options.addMargin, Min2(xMax - xMin, yMax - yMin))
  IN [xMin |-> xMin - margin, xMax |-> xMax + margin,
      yMin |-> yMin - margin, yMax |-> yMax + margin]

\* The merged box of one run of a line.
MergeRun(mbox, options) ==
  IF Len(mbox) # 1
  THEN WithMargin(MinOf({mbox[i].xMin : i \in 1..Len(mbox)}),
                  MaxOf({mbox[i].xMax : i \in 1..Len(mbox)}),
                  MinOf({mbox[i].yMin : i \in 1..Len(mbox)}),
                  MaxOf({mbox[i].yMax : i \in 1..Len(mbox)}), options)
  ELSE WithMargin(mbox[1].xMin, mbox[1].xMax, mbox[1].yMin, mbox[1].yMax, options)

\* The merged boxes of one line without the sort by xMin.
MergeLineUnsorted(boxesInLine, options) ==
  IF Len(boxesInLine) = 1
  THEN LET box == boxesInLine[1] IN
       <<WithMargin(box.xMin, box.xMax, box.yMin, box.yMax, options)>>
  ELSE LET mergedBox == SplitRuns(boxesInLine, 1, << >>, << >>, options)
       IN [k \in 1..Len(mergedBox) |-> MergeRun(mergedBox[k], options)]

\* The merged boxes of one line of combinedList.
MergeLine(boxesInLine, options) ==
  IF Len(boxesInLine) = 1
  THEN LET box == boxesInLine[1] IN
       <<WithMargin(box.xMin, box.xMax, box.yMin, box.yMax, options)>>
  ELSE LET sorted == Items(SortKeyed([i \in 1..Len(boxesInLine) |->
                             [key |-> <<boxesInLine[i].xMin, 0>>,
                              item |-> boxesInLine[i]]]))
           mergedBox == SplitRuns(sorted, 1, << >>, << >>, options)
       IN [k \in 1..Len(mergedBox) |-> MergeRun(mergedBox[k], options)]

\* The minSize filter of the horizontal boxes.
HorizontalLargeEnough(box, options) ==
  Max2(Abs(box[2][1] - box[1][1]), Abs(box[3][2] - box[2][2])) > options.minSize * Px

\* The minSize filter of the free boxes.
FreeLargeEnough(box, options) ==
  Max2(MaxOf(Xs(box)) - MinOf(Xs(box)), MaxOf(Ys(box)) - MinOf(Ys(box)))
    > options.minSize * Px

GroupTextBoxes(boxes, options) ==
  IF Len(boxes) = 0 THEN [horizontalList |-> << >>, freeList |-> << >>]
  ELSE
  LET polys == [i \in 1..Len(boxes) |-> PolyOf(boxes[i])]
      IsHorizontal(poly) == IsHorizontalPoly(poly, options)
      IsFree(poly) == ~IsHorizontalPoly(poly, options)
      horizontalPolys == SelectSeq(polys, IsHorizontal)
      freePolys == SelectSeq(polys, IsFree)
      horizontalList ==
        Items(SortKeyed([i \in 1..Len(horizontalPolys) |->
                 [key |-> <<HorizontalEntry(horizontalPolys[i]).yCenter2, 0>>,
                  item |-> HorizontalEntry(horizontalPolys[i])]]))
      freeList == [i \in 1..Len(freePolys) |-> FreeEntry(freePolys[i], options)]
      combinedList == CombineLines(horizontalList, 1, << >>, << >>, options)
      mergedList == Flatten([k \in 1..Len(combinedList) |->
                               MergeLine(combinedList[k], options)])
      horizontalBoxes == [k \in 1..Len(mergedList) |->
                            RectBox(mergedList[k].xMin, mergedList[k].yMin,
                                    mergedList[k].xMax, mergedList[k].yMax)]
      KeepHorizontal(box) == HorizontalLargeEnough(box, options)
      KeepFree(box) == FreeLargeEnough(box, options)
  IN [horizontalList |-> IF options.minSize # 0
                         THEN SelectSeq(horizontalBoxes, KeepHorizontal)
                         ELSE horizontalBoxes,
      freeList |-> IF options.minSize # 0
                   THEN SelectSeq(freeList, KeepFree) ELSE freeList]

(***************************************************************************)
(* buildCrops (crop.ts), cropBox and rotateBox (utils.ts)                  *)
(* A crop is its box, its rotation tag and the width and height in pixels  *)
(* of its image.                                                           *)
(***************************************************************************)
\* clamp(value, min, max)
Clamp(value, min, max) == Max2(min, Min2(max, value))

\* Math.floor and Math.ceil of a coordinate, in pixels.
FloorPx(v) == v \div Px

CeilPx(v) == -((-v) \div Px)

\* The size of the image cropBox returns.
CropBox(image, box) ==
  LET minX == Clamp(FloorPx(MinOf(Xs(box))), 0, image.width)
      maxX == Clamp(CeilPx(MaxOf(Xs(box))), 0, image.width)
      minY == Clamp(FloorPx(MinOf(Ys(box))), 0, image.height)
      maxY == Clamp(CeilPx(MaxOf(Ys(box))), 0, image.height)
  IN [width |-> Max2(1, maxX - minX), height |-> Max2(1, maxY - minY)]

CropHorizontal(image, boxes) ==
  [i \in 1..Len(boxes) |-> [image |-> CropBox(image, boxes[i]), box |-> boxes[i], rotation |-> 0]]

\* Math.max(1, Math.trunc(Math.max(a, b))) of two lengths given squared.
WarpSide(a2, b2) == Max2(1, Isqrt(Max2(a2, b2) \div (Px * Px)))

\* The warped crop of a free box: as wide and as high as its longer sides.
CropFree(image, boxes) ==
  [i \in 1..Len(boxes) |->
     LET tl == boxes[i][1]
         tr == boxes[i][2]
         br == boxes[i][3]
         bl == boxes[i][4]
     IN [image |-> [width |-> WarpSide(Hypot2(bl, br), Hypot2(tl, tr)),
                    height |-> WarpSide(Hypot2(br, tr), Hypot2(bl, tl))],
         box |-> boxes[i], rotation |-> 0]]

\* Math.cos and Math.sin of a multiple of 90 degrees.
CosDeg(angleDeg) ==
  CASE angleDeg % 360 = 0 -> 1
    [] angleDeg % 360 = 180 -> -1
    [] OTHER -> 0

SinDeg(angleDeg) ==
  CASE angleDeg % 360 = 90 -> 1
    [] angleDeg % 360 = 270 -> -1
    [] OTHER -> 0

\* rotateBox about (width / 2, height / 2), width and height in pixels.
RotateBox(box, angleDeg, width, height) ==
  LET cx == (width * Px) \div 2
      cy == (height * Px) \div 2
      cos == CosDeg(angleDeg)
      sin == SinDeg(angleDeg)
  IN [i \in 1..4 |->
        LET dx == box[i][1] - cx
            dy == box[i][2] - cy
        IN <<cx + dx * cos - dy * sin, cy + dx * sin + dy * cos>>]

\* rotateImage swaps the sides for 90 and 270 degrees.
RotateImage(image, angleDeg) ==
  IF SinDeg(angleDeg) # 0
  THEN [width |-> image.height, height |-> image.width]
  ELSE image

ApplyRotationSearch(image, box, rotations) ==
  IF Len(rotations) = 0 THEN <<[image |-> image, box |-> box, rotation |-> 0]>>
  ELSE [k \in 1..Len(rotations) |->
          [image |-> RotateImage(image, rotations[k]),
           box |-> RotateBox(box, rotations[k], image.width, image.height),
           rotation |-> rotations[k]]]

BuildCropsFreeFirst(image, horizontalList, freeList, options) ==
  LET horizontal == CropHorizontal(image, horizontalList)
      free == CropFree(image, freeList)
      all == free \o horizontal
  IN IF Len(options.rotationInfo) = 0 THEN all
     ELSE Flatten([i \in 1..Len(all) |->
                     ApplyRotationSearch(all[i].image, all[i].box, options.rotationInfo)])

BuildCrops(image, horizontalList, freeList, options) ==
  LET horizontal == CropHorizontal(image, horizontalList)
      free == CropFree(image, freeList)
      all == horizontal \o free
  IN IF Len(options.rotationInfo) = 0 THEN all
     ELSE Flatten([i \in 1..Len(all) |->
                     ApplyRotationSearch(all[i].image, all[i].box, options.rotationInfo)])

(***************************************************************************)
(* mergeOcrResultsByLine (postprocess.ts)                                  *)
(* A result is [box, text, confidence].                                    *)
(***************************************************************************)
\* buildMetrics.  The centre is kept doubled (yCenter2) and the angle of
\* the edge p0 -> p1, folded into 0..90 degrees, as its tangent |dy| / |dx|
\* (den = 0 for a vertical edge; 0 / 0, a box with p0 = p1, is 0 degrees).
BuildMetrics(result) ==
  LET minX == MinOf(Xs(result.box))
      maxX == MaxOf(Xs(result.box))
      minY == MinOf(Ys(result.box))
      maxY == MaxOf(Ys(result.box))
      p0 == result.box[1]
      p1 == result.box[2]
  IN [result |-> result, minX |-> minX, maxX |-> maxX, minY |-> minY, maxY |-> maxY,
      height |-> maxY - minY, yCenter2 |-> minY + maxY,
      angleTan |-> Rat(Abs(p1[2] - p0[2]), Abs(p1[1] - p0[1]))]

\* tan(maxAngleDeg), to six digits.
TanDeg(deg) ==
  CASE deg = 0 -> Rat(0, 1)
    [] deg = 10 -> Rat(176327, 1000000)
    [] deg = 45 -> Rat(1, 1)

\* The angle test that lets every result through as horizontal.
AngleAtMostAnything(item, maxAngleDeg) == TRUE

\* item.angleDeg <= options.maxAngleDeg
AngleAtMost(item, maxAngleDeg) ==
  IF maxAngleDeg >= 90 THEN TRUE
  ELSE item.angleTan.num * TanDeg(maxAngleDeg).den
         <= TanDeg(maxAngleDeg).num * item.angleTan.den

\* boxUnion
BoxUnion(items) ==
  RectBox(MinOf({items[i].minX : i \in 1..Len(items)}),
          MinOf({items[i].minY : i \in 1..Len(items)}),
          MaxOf({items[i].maxX : i \in 1..Len(items)}),
          MaxOf({items[i].maxY : i \in 1..Len(items)}))

\* shouldGroup; line.centerY is a fraction.
ShouldGroup(item, line, options) ==
  LET overlap == Max2(0, Min2(item.maxY, line.maxY) - Max2(item.minY, line.minY))
      minHeight == Max2(1 * Px, Min2(item.height, line.height))
      maxHeight == Max2(item.height, line.height)
      overlapOk == overlap * options.yThs.den >= options.yThs.num * minHeight
      centerDistanceOk ==
        Abs(item.yCenter2 * line.centerY.den - 2 * line.centerY.num) * options.yThs.den
          <= 2 * line.centerY.den * maxHeight * options.yThs.num
      heightSimilar ==
        maxHeight * options.heightThs.den
          <= (options.heightThs.den + options.heightThs.num) * minHeight
  IN (overlapOk \/ centerDistanceOk) /\ heightSimilar

\* The line an item opens.
NewLine(item) ==
  [items |-> <<item>>, centerY |-> Rat(item.yCenter2, 2), height |-> item.height,
   minY |-> item.minY, maxY |-> item.maxY]

\* The line after target.items.push(item) and the updates that follow it.
AddToLine(target, item) ==
  LET n == Len(target.items) + 1 IN
  [items |-> Append(target.items, item),
   centerY |-> Rat(2 * target.centerY.num * (n - 1) + item.yCenter2 * target.centerY.den,
                   2 * target.centerY.den * n),
   height |-> Max2(target.height, item.height),
   minY |-> Min2(target.minY, item.minY),
   maxY |-> Max2(target.maxY, item.maxY)]

RECURSIVE PlaceItems(_, _, _, _)
\* The loop of groupByLine: each item joins the first line it groups with.
PlaceItems(sorted, i, lines, options) ==
  IF i > Len(sorted) THEN lines
  ELSE LET item == sorted[i]
           found == {k \in 1..Len(lines) : ShouldGroup(item, lines[k], options)}
       IN IF found # {}
          THEN LET k == MinOf(found) IN
               PlaceItems(sorted, i + 1,
                          [lines EXCEPT ![k] = AddToLine(lines[k], item)], options)
          ELSE PlaceItems(sorted, i + 1, Append(lines, NewLine(item)), options)

GroupByLine(items, options) ==
  LET sorted == Items(SortKeyed([i \in 1..Len(items) |->
                        [key |-> <<items[i].yCenter2, 0>>, item |-> items[i]]]))
  IN PlaceItems(sorted, 1, << >>, options)

RECURSIVE JoinTexts(_)
\* textParts.join(' ')
JoinTexts(textParts) ==
  IF textParts = << >> THEN << >>
  ELSE IF Len(textParts) = 1 THEN textParts[1]
  ELSE textParts[1] \o <<" ">> \o JoinTexts(Tail(textParts))

NonEmptyText(text) == Len(text) > 0

BuildMergedResult(items) ==
  LET textParts == SelectSeq([i \in 1..Len(items) |-> items[i].result.text], NonEmptyText)
      confidence == MinOf({items[i].result.confidence : i \in 1..Len(items)})
  IN BuildMetrics([box |-> BoxUnion(items), text |-> JoinTexts(textParts),
                   confidence |-> confidence])

RECURSIVE MergeRunsWithoutLast(_, _, _, _, _)
\* The loop of mergeLineItems without the push of the run that is still
\* open when the items end.
MergeRunsWithoutLast(ordered, i, merged, current, lineAndOptions) ==
  IF i > Len(ordered) THEN merged
  ELSE LET item == ordered[i]
           line == lineAndOptions.line
           options == lineAndOptions.options
       IN IF Len(current) = 0
          THEN MergeRunsWithoutLast(ordered, i + 1, merged, <<item>>, lineAndOptions)
          ELSE LET prev == current[Len(current)]
                   gap == item.minX - prev.maxX
                   lineHeight == Max2(Max2(line.height, item.height), 1 * Px)
               IN IF gap * options.xThs.den <= options.xThs.num * lineHeight
                  THEN MergeRunsWithoutLast(ordered, i + 1, merged,
                                            Append(current, item), lineAndOptions)
                  ELSE MergeRunsWithoutLast(ordered, i + 1,
                                            Append(merged, BuildMergedResult(current)),
                                            <<item>>, lineAndOptions)

RECURSIVE MergeRuns(_, _, _, _, _)
\* The loop of mergeLineItems over the items ordered by minX, then minY.
MergeRuns(ordered, i, merged, current, lineAndOptions) ==
  IF i > Len(ordered)
  THEN IF Len(current) > 0 THEN Append(merged, BuildMergedResult(current)) ELSE merged
  ELSE LET item == ordered[i]
           line == lineAndOptions.line
           options == lineAndOptions.options
       IN IF Len(current) = 0
          THEN MergeRuns(ordered, i + 1, merged, <<item>>, lineAndOptions)
          ELSE LET prev == current[Len(current)]
                   gap == item.minX - prev.maxX
                   lineHeight == Max2(Max2(line.height, item.height), 1 * Px)
               IN IF gap * options.xThs.den <= options.xThs.num * lineHeight
                  THEN MergeRuns(ordered, i + 1, merged, Append(current, item),
                                 lineAndOptions)
                  ELSE MergeRuns(ordered, i + 1,
                                 Append(merged, BuildMergedResult(current)),
                                 <<item>>, lineAndOptions)

\* mergeLineItems with the threshold scaled by the height of the item alone.
MergeLineItemsByItemHeight(line, options) ==
  LET ordered == Items(SortKeyed([i \in 1..Len(line.items) |->
                         [key |-> <<line.items[i].minX, line.items[i].minY>>,
                          item |-> line.items[i]]]))
  IN MergeRuns(ordered, 1, << >>, << >>,
               [line |-> [line EXCEPT !.height = 0], options |-> options])

MergeLineItems(line, options) ==
  LET ordered == Items(SortKeyed([i \in 1..Len(line.items) |->
                         [key |-> <<line.items[i].minX, line.items[i].minY>>,
                          item |-> line.items[i]]]))
  IN MergeRuns(ordered, 1, << >>, << >>, [line |-> line, options |-> options])

\* mergeOcrResultsByLine without the sort that ends it.
MergeOcrResultsByLineUnsorted(results, options) ==
  IF ~options.mergeLines \/ Len(results) = 0 THEN results
  ELSE
  LET metrics == [i \in 1..Len(results) |-> BuildMetrics(results[i])]
      IsHorizontal(item) == AngleAtMost(item, options.maxAngleDeg)
      IsPassthrough(item) == ~AngleAtMost(item, options.maxAngleDeg)
      lines == GroupByLine(SelectSeq(metrics, IsHorizontal), options)
      mergedLines == Flatten([k \in 1..Len(lines) |-> MergeLineItems(lines[k], options)])
      combined == mergedLines \o SelectSeq(metrics, IsPassthrough)
  IN [i \in 1..Len(combined) |-> combined[i].result]

MergeOcrResultsByLine(results, options) ==
  IF ~options.mergeLines \/ Len(results) = 0 THEN results
  ELSE
  LET metrics == [i \in 1..Len(results) |-> BuildMetrics(results[i])]
      IsHorizontal(item) == AngleAtMost(item, options.maxAngleDeg)
      IsPassthrough(item) == ~AngleAtMost(item, options.maxAngleDeg)
      lines == GroupByLine(SelectSeq(metrics, IsHorizontal), options)
      mergedLines == Flatten([k \in 1..Len(lines) |-> MergeLineItems(lines[k], options)])
      combined == mergedLines \o SelectSeq(metrics, IsPassthrough)
      sorted == Items(SortKeyed([k \in 1..Len(combined) |->
                        [key |-> <<combined[k].minY, combined[k].minX>>,
                         item |-> combined[k]]]))
  IN [i \in 1..Len(sorted) |-> sorted[i].result]

(***************************************************************************)
(* recognize (pipeline.ts)                                                 *)
(* The frame of a call is a record; pc names the await the call is         *)
(* suspended at: "detector" and "recognizer" are the two session.run       *)
(* awaits, "resolved" and "rejected" the settled promise.                  *)
(***************************************************************************)
\* An output a session did not return.
NoTensor == [some |-> FALSE, v |-> [type |-> "", shape |-> << >>, data |-> << >>]]

\* ensureTensor / tensorToHeatmap / detectorPostprocessDebug: the error a
\* pair of detector outputs raises, "" for none.
DetectorOutputError(outputs) ==
  IF ~outputs.text.some \/ ~outputs.link.some THEN "Missing tensor output from model."
  ELSE IF outputs.text.v.type # "float32" \/ outputs.link.v.type # "float32"
  THEN "Expected float32 tensor for heatmap."
  ELSE IF outputs.text.v.shape # outputs.link.v.shape
  THEN "Detector output heatmaps must share the same shape."
  ELSE ""

\* The frame after a throw: the promise rejects, nothing else is kept.
Throw(o, message) == [o EXCEPT !.pc = "rejected", !.error = message]

RECURSIVE RotationOrder(_, _)
\* rotationOrder: the rotation tags of the results in order of first
\* appearance (Map keys are compared by value, 0 and 360 differ).
RotationOrder(results, seen) ==
  IF results = << >> THEN seen
  ELSE RotationOrder(Tail(results),
                     IF \E k \in 1..Len(seen) : seen[k] = Head(results).rotation
                     THEN seen ELSE Append(seen, Head(results).rotation))

\* {box, text, confidence} of a recognition crop.
RawResult(result) ==
  [box |-> result.box, text |-> result.text, confidence |-> result.confidence]

\* byRotation.get(rotation)
ByRotation(results, rotation) ==
  LET HasTag(result) == result.rotation = rotation
      group == SelectSeq(results, HasTag)
  IN [i \in 1..Len(group) |-> RawResult(group[i])]

\* The tail of recognize with one merge over the results of all rotations.
FinishMergedAcrossRotations(o) ==
  LET rawResults == [i \in 1..Len(o.results) |-> RawResult(o.results[i])]
  IN [o EXCEPT !.pc = "resolved",
               !.returned = Some(MergeOcrResultsByLine(rawResults, o.resolved))]

\* The tail of recognize, after the loop over the crops: the value the
\* promise resolves with.
Finish(o) ==
  LET rawResults == [i \in 1..Len(o.results) |-> RawResult(o.results[i])]
      rotationOrder == RotationOrder(o.results, << >>)
      merged == Flatten([k \in 1..Len(rotationOrder) |->
                  MergeOcrResultsByLine(ByRotation(o.results, rotationOrder[k]),
                                        o.resolved)])
  IN [o EXCEPT !.pc = "resolved",
               !.returned = Some(IF ~o.resolved.mergeLines THEN rawResults ELSE merged)]

\* A do-while form of the loop: a run is started before the crops are counted.
ForCropsRunsFirst(o) ==
  IF o.k <= Len(o.crops) \/ o.k = 1
  THEN [o EXCEPT !.pc = "recognizer", !.recognizerRuns = o.recognizerRuns + 1]
  ELSE Finish(o)

\* for (const crop of crops): the run for crop k is started, or the loop
\* is over and the call finishes.
ForCrops(o) ==
  IF o.k <= Len(o.crops)
  THEN [o EXCEPT !.pc = "recognizer", !.recognizerRuns = o.recognizerRuns + 1]
  ELSE Finish(o)

\* The call from the detector outputs on, with the runs of all crops
\* started together instead of one after the other.
AfterDetectorAllRunsAtOnce(o, outputs, rawBoxesAdjusted) ==
  IF DetectorOutputError(outputs) # "" THEN Throw(o, DetectorOutputError(outputs))
  ELSE LET grouped == GroupTextBoxes(rawBoxesAdjusted, o.resolved)
           crops == BuildCrops(o.image, grouped.horizontalList, grouped.freeList,
                               o.resolved)
           next == ForCrops([o EXCEPT !.detected = TRUE,
                                      !.raw = rawBoxesAdjusted,
                                      !.horizontalList = grouped.horizontalList,
                                      !.freeList = grouped.freeList,
                                      !.crops = crops,
                                      !.ignoreIndices = BuildIgnoreIndices(o.recognizer, o.resolved),
                                      !.k = 1])
       IN IF next.pc = "recognizer"
          THEN [next EXCEPT !.recognizerRuns = Len(crops)] ELSE next

\* The call from the detector outputs to its next await or to its end.
AfterDetector(o, outputs, rawBoxesAdjusted) ==
  IF DetectorOutputError(outputs) # "" THEN Throw(o, DetectorOutputError(outputs))
  ELSE LET grouped == GroupTextBoxes(rawBoxesAdjusted, o.resolved)
           crops == BuildCrops(o.image, grouped.horizontalList, grouped.freeList,
                               o.resolved)
       IN ForCrops([o EXCEPT !.detected = TRUE,
                             !.raw = rawBoxesAdjusted,
                             !.horizontalList = grouped.horizontalList,
                             !.freeList = grouped.freeList,
                             !.crops = crops,
                             !.ignoreIndices = BuildIgnoreIndices(o.recognizer, o.resolved),
                             !.k = 1])

\* ensureTensor and the float32 check on the recognizer output.
RecognizerOutputError(output) ==
  IF ~output.some THEN "Missing tensor output from model."
  ELSE IF output.v.type # "float32" THEN "Recognizer output must be float32."
  ELSE ""

\* The result pushed for crop k from the logits of its run.
DecodeCrop(o, logitsTensor) ==
  LET shape == logitsTensor.shape
      steps == shape[Len(shape) - 1]
      classes == shape[Len(shape)]
      decoded == CtcGreedyDecode(logitsTensor.data, steps, classes,
                                 o.recognizer.charset,
                                 OrElse(o.recognizer.blankIndex, 0),
                                 Range(o.ignoreIndices))
  IN [box |-> o.crops[o.k].box, text |-> decoded.text,
      confidence |-> decoded.confidence, rotation |-> o.crops[o.k].rotation]

\* A loop that records the error of a crop and goes on to the next crop.
AfterRecognizerSkipsFailedCrop(o, output) ==
  IF RecognizerOutputError(output) # ""
  THEN ForCrops([o EXCEPT !.error = RecognizerOutputError(output), !.k = o.k + 1])
  ELSE ForCrops([o EXCEPT !.results = Append(o.results, DecodeCrop(o, output.v)),
                          !.outputs = Append(o.outputs, output.v),
                          !.k = o.k + 1])

\* The call from the output of the run for crop k to its next await or to
\* its end.
AfterRecognizer(o, output) ==
  IF RecognizerOutputError(output) # "" THEN Throw(o, RecognizerOutputError(output))
  ELSE ForCrops([o EXCEPT !.results = Append(o.results, DecodeCrop(o, output.v)),
                          !.outputs = Append(o.outputs, output.v),
                          !.k = o.k + 1])

(***************************************************************************)
(* Specification of the recognize call                                     *)
(***************************************************************************)
\* At most MaxBoxes raw boxes per detection.
MaxBoxes == 2

\* A raw box given in whole pixels.
PxBox(x1, y1, x2, y2, x3, y3, x4, y4) ==
  <<<<x1 * Px, y1 * Px>>, <<x2 * Px, y2 * Px>>, <<x3 * Px, y3 * Px>>, <<x4 * Px, y4 * Px>>>>

\* The raw boxes (rawBoxesAdjusted) a detection is made of, in the order
\* the component scan finds them (top to bottom, then left to right): a
\* high box, two low boxes of one text line to its right, a box below
\* minSize, and a slanted box (slope 0.2, 11.3 degrees).
RawBoxPool ==
  <<PxBox(10, 10, 60, 10, 60, 40, 10, 40),
    PxBox(70, 12, 120, 12, 120, 20, 70, 20),
    PxBox(125, 12, 160, 12, 160, 20, 125, 20),
    PxBox(5, 50, 15, 50, 15, 55, 5, 55),
    PxBox(20, 60, 70, 70, 68, 76, 18, 66)>>

\* The boxes of the pool at the indices in S, in pool order.
PoolBoxes(S) ==
  LET F[i \in 0..Len(RawBoxPool)] ==
        IF i = 0 THEN << >>
        ELSE IF i \in S THEN Append(F[i - 1], RawBoxPool[i]) ELSE F[i - 1]
  IN F[Len(RawBoxPool)]

RawBoxLists ==
  {PoolBoxes(S) : S \in {T \in SUBSET (1..Len(RawBoxPool)) : Cardinality(T) <= MaxBoxes}}

\* Two more detections, each of one text line.  A box 60 pixels high
\* found before a box 30 pixels high that begins 2 pixels to its left and
\* ends inside it; and the two low boxes of the pool found right to left.
OverlapLists ==
  {<<PxBox(12, 5, 112, 5, 112, 65, 12, 65), PxBox(10, 20, 14, 20, 14, 50, 10, 50)>>,
   <<RawBoxPool[3], RawBoxPool[2]>>}

\* The image of every call: 200 x 100 pixels.
SourceImage == [width |-> 200, height |-> 100]

\* The options of a call: none, or mergeLines and rotationInfo overridden.
RotationInfos == {<< >>, <<90>>, <<0, 180>>, <<0, 360>>}

OptionsPool ==
  {NoSeq} \cup {Some([mergeLines |-> m, rotationInfo |-> r]) :
                  m \in BOOLEAN, r \in RotationInfos}

\* The recognizer of every call: two characters, CTC blank at class 0.
RecognizerModel == [charset |-> <<"a", "b">>, blankIndex |-> NoNum, symbols |-> NoSeq]

Float32(shape, data) == Some([type |-> "float32", shape |-> shape, data |-> data])

Int32(shape, data) == Some([type |-> "int32", shape |-> shape, data |-> data])

\* The outputs a detector run resolves with: each heatmap missing, of
\* another type, or float32 in one of two shapes (the data are not read).
HeatmapPool ==
  {NoTensor, Int32(<<1, 1, 2, 2>>, << >>),
   Float32(<<1, 1, 2, 2>>, << >>), Float32(<<1, 1, 2, 3>>, << >>)}

DetectorOutputs == {[text |-> t, link |-> l] : t \in HeatmapPool, l \in HeatmapPool}

\* The output a recognizer run resolves with: missing, int32, or float32
\* logits of shape [1, 2, 3] that decode to '', 'a' and 'ab'.
RecognizerOutputs ==
  {NoTensor, Int32(<<1, 2, 3>>, <<0, 0, 0, 0, 0, 0>>),
   Float32(<<1, 2, 3>>, <<5, 0, 0, 5, 0, 0>>),
   Float32(<<1, 2, 3>>, <<0, 5, 0, 5, 0, 0>>),
   Float32(<<1, 2, 3>>, <<0, 5, 0, 0, 0, 5>>)}

Init ==
  /\ dec = Idle
  /\ ign = Idle
  /\ prep = Idle
  /\ grp = Idle
  /\ mrg = Idle
  /\ trc = Idle
  /\ pair = Idle
  /\ adp = Idle
  /\ ldr = Idle
  /\ flt = Idle
  /\ pad = Idle
  /\ crp = Idle
  /\ rot = Idle
  /\ fsw = Idle
  /\ det = Idle
  /\ \E options \in OptionsPool :
       ocr = [pc |-> "start", image |-> SourceImage, recognizer |-> RecognizerModel,
              options |-> options, resolved |-> DEFAULT_OCR_OPTIONS,
              detectorInput |-> NoTensor, detected |-> FALSE,
              raw |-> << >>,           \* history: the raw boxes of the detection
              horizontalList |-> << >>, freeList |-> << >>, crops |-> << >>,
              ignoreIndices |-> << >>, k |-> 0,
              outputs |-> << >>,       \* history: the logits of every decoded run
              results |-> << >>, returned |-> NoSeq, error |-> "",
              detectorRuns |-> 0, recognizerRuns |-> 0]

\* recognize up to its first session.run: the options are resolved, the
\* detector input is built and the detector run is started.
RecognizeCall ==
  /\ ocr.pc = "start"
  /\ LET resolved == ResolveOcrOptions(ocr.options)
         detectorPrep == DetectorPreprocess(ocr.image, resolved)
     IN ocr' = [ocr EXCEPT !.pc = "detector", !.resolved = resolved,
                           !.detectorInput = Some(detectorPrep.input),
                           !.detectorRuns = ocr.detectorRuns + 1]
  /\ UNCHANGED <<dec, ign, prep, grp, mrg, trc, pair, adp, ldr, flt, pad, crp, rot, fsw, det>>

\* The detector session rejects.
DetectorRejects ==
  /\ ocr.pc = "detector"
  /\ ocr' = Throw(ocr, "detector session failed")
  /\ UNCHANGED <<dec, ign, prep, grp, mrg, trc, pair, adp, ldr, flt, pad, crp, rot, fsw, det>>

\* The detector session resolves; the heatmaps hold the raw boxes chosen.
DetectorResolves ==
  /\ ocr.pc = "detector"
  /\ \E outputs \in DetectorOutputs :
       \E raw \in (IF DetectorOutputError(outputs) = ""
                  THEN RawBoxLists \cup OverlapLists ELSE {<< >>}) :
         ocr' = AfterDetector(ocr, outputs, raw)
  /\ UNCHANGED <<dec, ign, prep, grp, mrg, trc, pair, adp, ldr, flt, pad, crp, rot, fsw, det>>

\* The recognizer session rejects the run for crop k.
RecognizerRejects ==
  /\ ocr.pc = "recognizer"
  /\ ocr' = Throw(ocr, "recognizer session failed")
  /\ UNCHANGED <<dec, ign, prep, grp, mrg, trc, pair, adp, ldr, flt, pad, crp, rot, fsw, det>>

\* The recognizer session resolves the run for crop k.
RecognizerResolves ==
  /\ ocr.pc = "recognizer"
  /\ \E output \in RecognizerOutputs : ocr' = AfterRecognizer(ocr, output)
  /\ UNCHANGED <<dec, ign, prep, grp, mrg, trc, pair, adp, ldr, flt, pad, crp, rot, fsw, det>>

Next ==
  \/ RecognizeCall
  \/ DetectorRejects
  \/ DetectorResolves
  \/ RecognizerRejects
  \/ RecognizerResolves

Spec == Init /\ [][Next]_vars

(***************************************************************************)
(* The grouping step alone: groupTextBoxes on a list of detected boxes,    *)
(* and groupTextBoxes again on the boxes it returned.                      *)
(***************************************************************************)
AddMargins == {Rat(0, 1), Rat(1, 10)}
MinSizes == {0, 20}

GroupingOptions ==
  {[DEFAULT_OCR_OPTIONS EXCEPT !.addMargin = a, !.minSize = m] :
     a \in AddMargins, m \in MinSizes}

\* The boxes a grouping result holds: its horizontal list followed by its free list.
BoxesOf(grouped) == grouped.horizontalList \o grouped.freeList

\* A raw box smaller than a pixel, from x 5 to 5.5 and y 5 to 5.5, as a
\* small component divided by a large scale gives, alone and before a box
\* of the pool.
SubPixelLists ==
  LET subPixelBox == RectBox(5 * Px, 5 * Px, 5 * Px + 1, 5 * Px + 1)
  IN {<<subPixelBox>>, <<subPixelBox, RawBoxPool[1]>>}

InitGroup ==
  /\ \E boxes \in RawBoxLists \cup SubPixelLists, options \in GroupingOptions :
       grp = [pc |-> "boxes", boxes |-> boxes, options |-> options,
              first |-> GroupTextBoxes(<< >>, options),
              second |-> GroupTextBoxes(<< >>, options)]
  /\ dec = Idle
  /\ ign = Idle
  /\ prep = Idle
  /\ ocr = Idle
  /\ mrg = Idle
  /\ trc = Idle
  /\ pair = Idle
  /\ adp = Idle
  /\ ldr = Idle
  /\ flt = Idle
  /\ pad = Idle
  /\ crp = Idle
  /\ rot = Idle
  /\ fsw = Idle
  /\ det = Idle

GroupCall ==
  /\ grp.pc = "boxes"
  /\ grp' = [grp EXCEPT !.pc = "grouped",
                        !.first = GroupTextBoxes(grp.boxes, grp.options)]
  /\ UNCHANGED <<dec, ign, prep, ocr, mrg, trc, pair, adp, ldr, flt, pad, crp, rot, fsw, det>>

GroupAgain ==
  /\ grp.pc = "grouped"
  /\ grp' = [grp EXCEPT !.pc = "regrouped",
                        !.second = GroupTextBoxes(BoxesOf(grp.first), grp.options)]
  /\ UNCHANGED <<dec, ign, prep, ocr, mrg, trc, pair, adp, ldr, flt, pad, crp, rot, fsw, det>>

NextGroup ==
  \/ GroupCall
  \/ GroupAgain

SpecGroup == InitGroup /\ [][NextGroup]_vars

(***************************************************************************)
(* The line merge alone: mergeOcrResultsByLine on a list of results.  The  *)
(* frame keeps the locals of the call: the two filtered lists, the lines   *)
(* of groupByLine and what mergeLineItems returns for each line.           *)
(***************************************************************************)
MaxResults == 3

OcrResult(box, text, confidence) ==
  [box |-> box, text |-> text, confidence |-> confidence]

\* Results on one text line (the fourth is taller, the third has no text),
\* one on a second line, one tilted by 26.6 degrees, and three wide boxes
\* whose top edge rises by 9.91, 9.91 and 10.10 degrees.
ResultPool ==
  <<OcrResult(RectBox(0, 0, 10 * Px, 10 * Px), <<"a">>, 900),
    OcrResult(RectBox(15 * Px, 0, 25 * Px, 10 * Px), <<"b">>, 700),
    OcrResult(RectBox(27 * Px, 0, 37 * Px, 10 * Px), << >>, 500),
    OcrResult(RectBox(39 * Px, 0, 49 * Px, 10 * Px), <<"c">>, 800),
    OcrResult(RectBox(52 * Px, 0, 62 * Px, 14 * Px), <<"d">>, 850),
    OcrResult(RectBox(0, 30 * Px, 10 * Px, 40 * Px), <<"e">>, 950),
    OcrResult(PxBox(0, 60, 10, 65, 10, 75, 0, 70), <<"f">>, 600),
    OcrResult(PxBox(0, 100, 395, 169, 383, 238, -12, 169), <<"g">>, 900),
    OcrResult(PxBox(420, 100, 815, 169, 803, 238, 408, 169), <<"h">>, 800),
    OcrResult(PxBox(420, 100, 813, 170, 801, 239, 408, 169), <<"i">>, 750)>>

\* The results of the pool at the indices in S, in pool order.
PoolResults(S) ==
  LET F[i \in 0..Len(ResultPool)] ==
        IF i = 0 THEN << >>
        ELSE IF i \in S THEN Append(F[i - 1], ResultPool[i]) ELSE F[i - 1]
  IN F[Len(ResultPool)]

ResultLists ==
  {PoolResults(S) : S \in {T \in SUBSET (1..Len(ResultPool)) : Cardinality(T) <= MaxResults}}

MergeOptions ==
  {[DEFAULT_OCR_OPTIONS EXCEPT !.mergeLines = m, !.xThs = x, !.maxAngleDeg = a] :
     m \in BOOLEAN, x \in {Rat(1, 1), Rat(1, 2)}, a \in {10, 45}}

MergeFrame(results, options) ==
  LET merging == options.mergeLines /\ Len(results) > 0
      metrics == [i \in 1..Len(results) |-> BuildMetrics(results[i])]
      IsHorizontal(item) == AngleAtMost(item, options.maxAngleDeg)
      IsPassthrough(item) == ~AngleAtMost(item, options.maxAngleDeg)
      lines == GroupByLine(SelectSeq(metrics, IsHorizontal), options)
  IN [pc |-> "returned", results |-> results, options |-> options,
      horizontal |-> IF merging THEN SelectSeq(metrics, IsHorizontal) ELSE << >>,
      passthrough |-> IF merging THEN SelectSeq(metrics, IsPassthrough) ELSE << >>,
      lines |-> IF merging THEN lines ELSE << >>,
      mergedLines |-> IF merging
                      THEN [k \in 1..Len(lines) |-> MergeLineItems(lines[k], options)]
                      ELSE << >>,
      returned |-> MergeOcrResultsByLine(results, options)]

InitMerge ==
  /\ \E results \in ResultLists, options \in MergeOptions :
       mrg = [pc |-> "call", results |-> results, options |-> options,
              horizontal |-> << >>, passthrough |-> << >>, lines |-> << >>,
              mergedLines |-> << >>, returned |-> << >>]
  /\ dec = Idle
  /\ ign = Idle
  /\ prep = Idle
  /\ ocr = Idle
  /\ grp = Idle
  /\ trc = Idle
  /\ pair = Idle
  /\ adp = Idle
  /\ ldr = Idle
  /\ flt = Idle
  /\ pad = Idle
  /\ crp = Idle
  /\ rot = Idle
  /\ fsw = Idle
  /\ det = Idle

MergeCall ==
  /\ mrg.pc = "call"
  /\ mrg' = MergeFrame(mrg.results, mrg.options)
  /\ UNCHANGED <<dec, ign, prep, ocr, grp, trc, pair, adp, ldr, flt, pad, crp, rot, fsw, det>>

NextMerge == MergeCall

SpecMerge == InitMerge /\ [][NextMerge]_vars

(***************************************************************************)
(* recognize with its awaits on traceStep: every await traceStep(...) is a *)
(* suspension point, with a writer or without one.                         *)
(***************************************************************************)
\* The names of the traceStep calls of recognize, in the order of the code.
TraceNames ==
  <<"ocr_options", "load_image", "resize_aspect_ratio", "pad_to_stride",
    "normalize_mean_variance", "to_tensor_layout", "detector_input_final",
    "detector_raw_output_text", "detector_raw_output_link", "heatmap_text",
    "heatmap_link", "threshold_and_box_decode", "adjust_coordinates_to_original",
    "detector_boxes_horizontal", "detector_boxes_free", "detector_boxes_ordered",
    "recognizer_results_pre_merge", "recognizer_results_post_merge">>

\* The position of a name among the traceStep calls.
StepIndex(name) == CHOOSE i \in 1..Len(TraceNames) : TraceNames[i] = name

\* The traceStep calls before detector.session.run, before
\* detectorPostprocessDebug, and before the loop over the crops.
StepsBeforeDetector == StepIndex("detector_input_final")
StepsBeforeBoxDecode == StepIndex("heatmap_link")
StepsBeforeCrops == StepIndex("detector_boxes_ordered")

\* The frame of a call that has not started.
TracedFrame(options, writer) ==
  [pc |-> "start", image |-> SourceImage, recognizer |-> RecognizerModel,
   options |-> options, resolved |-> DEFAULT_OCR_OPTIONS,
   shared |-> FALSE,        \* resolved is the DEFAULT_OCR_OPTIONS object itself
   writer |-> writer,       \* the call was given a trace writer
   at |-> 0,                \* the number of traceStep calls made
   steps |-> << >>,         \* the names the writer has received
   heat |-> [text |-> NoTensor, link |-> NoTensor], raw |-> << >>,
   detectorInput |-> NoTensor, detected |-> FALSE,
   horizontalList |-> << >>, freeList |-> << >>, crops |-> << >>,
   ignoreIndices |-> << >>, k |-> 0, outputs |-> << >>,
   results |-> << >>, returned |-> NoSeq, error |-> "",
   detectorRuns |-> 0, recognizerRuns |-> 0]

\* await traceStep(trace, step) without the hand-over to the writer.
TraceStepUnwritten(t) == [t EXCEPT !.pc = "trace", !.at = t.at + 1]

\* await traceStep(trace, step): the writer, if there is one, is handed the
\* step, and the call is suspended.
TraceStep(t) ==
  [t EXCEPT !.pc = "trace", !.at = t.at + 1,
            !.steps = IF t.writer THEN Append(t.steps, TraceNames[t.at + 1])
                      ELSE t.steps]

\* The tail of recognize starts with the step recognizer_results_pre_merge.
ToPreMerge(t) ==
  IF t.pc = "resolved" THEN TraceStep([t EXCEPT !.returned = NoSeq]) ELSE t

\* recognize from its call to its first await.
Begin(t, defaults) ==
  TraceStep([t EXCEPT !.resolved = ResolveOcrOptionsFrom(t.options, defaults),
                      !.shared = ~t.options.some])

\* recognize from the await of its traceStep number t.at to its next await
\* or to its end.
Resume(t) ==
  CASE t.at = StepIndex("load_image") ->
         TraceStep([t EXCEPT !.detectorInput =
                      Some(DetectorPreprocess(t.image, t.resolved).input)])
    [] t.at = StepsBeforeDetector ->
         [t EXCEPT !.pc = "detector", !.detectorRuns = t.detectorRuns + 1]
    [] t.at = StepsBeforeBoxDecode ->
         IF DetectorOutputError(t.heat) # "" THEN Throw(t, DetectorOutputError(t.heat))
         ELSE TraceStep(t)
    [] t.at = StepsBeforeCrops -> ToPreMerge(AfterDetector(t, t.heat, t.raw))
    [] t.at = Len(TraceNames) - 1 ->
         IF ~t.resolved.mergeLines THEN Finish(t) ELSE TraceStep(t)
    [] t.at = Len(TraceNames) -> Finish(t)
    [] OTHER -> TraceStep(t)

\* recognize from the outputs of the detector run to its next await:
\* ensureTensor and tensorToHeatmap throw, or the heatmaps are traced.
OnDetectorOutputs(t, outputs, rawBoxesAdjusted) ==
  IF ~outputs.text.some \/ ~outputs.link.some
       \/ outputs.text.v.type # "float32" \/ outputs.link.v.type # "float32"
  THEN Throw(t, DetectorOutputError(outputs))
  ELSE TraceStep([t EXCEPT !.heat = outputs, !.raw = rawBoxesAdjusted])

\* recognize from the output of the run for crop k to its next await.
OnRecognizerOutput(t, output) == ToPreMerge(AfterRecognizer(t, output))

InitTrace ==
  /\ \E options \in OptionsPool, writer \in BOOLEAN :
       trc = TracedFrame(options, writer)
  /\ dec = Idle
  /\ ign = Idle
  /\ prep = Idle
  /\ ocr = Idle
  /\ grp = Idle
  /\ mrg = Idle
  /\ pair = Idle
  /\ adp = Idle
  /\ ldr = Idle
  /\ flt = Idle
  /\ pad = Idle
  /\ crp = Idle
  /\ rot = Idle
  /\ fsw = Idle
  /\ det = Idle

TracedCall ==
  /\ trc.pc = "start"
  /\ trc' = Begin(trc, DEFAULT_OCR_OPTIONS)
  /\ UNCHANGED <<dec, ign, prep, ocr, grp, mrg, pair, adp, ldr, flt, pad, crp, rot, fsw, det>>

\* The promise of traceStep resolves.
TraceStepResolves ==
  /\ trc.pc = "trace"
  /\ trc' = Resume(trc)
  /\ UNCHANGED <<dec, ign, prep, ocr, grp, mrg, pair, adp, ldr, flt, pad, crp, rot, fsw, det>>

TracedDetectorRejects ==
  /\ trc.pc = "detector"
  /\ trc' = Throw(trc, "detector session failed")
  /\ UNCHANGED <<dec, ign, prep, ocr, grp, mrg, pair, adp, ldr, flt, pad, crp, rot, fsw, det>>

TracedDetectorResolves ==
  /\ trc.pc = "detector"
  /\ \E outputs \in DetectorOutputs :
       \E raw \in (IF DetectorOutputError(outputs) = "" THEN RawBoxLists ELSE {<< >>}) :
         trc' = OnDetectorOutputs(trc, outputs, raw)
  /\ UNCHANGED <<dec, ign, prep, ocr, grp, mrg, pair, adp, ldr, flt, pad, crp, rot, fsw, det>>

TracedRecognizerRejects ==
  /\ trc.pc = "recognizer"
  /\ trc' = Throw(trc, "recognizer session failed")
  /\ UNCHANGED <<dec, ign, prep, ocr, grp, mrg, pair, adp, ldr, flt, pad, crp, rot, fsw, det>>

TracedRecognizerResolves ==
  /\ trc.pc = "recognizer"
  /\ \E output \in RecognizerOutputs : trc' = OnRecognizerOutput(trc, output)
  /\ UNCHANGED <<dec, ign, prep, ocr, grp, mrg, pair, adp, ldr, flt, pad, crp, rot, fsw, det>>

NextTrace ==
  \/ TracedCall
  \/ TraceStepResolves
  \/ TracedDetectorRejects
  \/ TracedDetectorResolves
  \/ TracedRecognizerRejects
  \/ TracedRecognizerResolves

SpecTrace == InitTrace /\ [][NextTrace]_vars

(***************************************************************************)
(* Two recognize calls in flight on the same detector and recognizer, and  *)
(* the module's DEFAULT_OCR_OPTIONS record.  A call without options holds  *)
(* a reference to that record and reads it whenever it reads an option.    *)
(***************************************************************************)
Callers == {1, 2}

\* The options of a call: none, mergeLines overridden, and fields of the
\* nested recognizer record overridden (one field, two fields, none).
PairOptions ==
  {NoSeq,
   Some([mergeLines |-> FALSE, rotationInfo |-> << >>]),
   Some([recognizer |-> [inputHeight |-> 32]]),
   Some([canvasSize |-> 1280, recognizer |-> [inputWidth |-> 200, mean |-> Rat(0, 1)]]),
   Some([mergeLines |-> FALSE, recognizer |-> << >>])}

\* The detection of a call: no box, or the high box and a low box right of it.
PairRawLists == {<< >>, <<RawBoxPool[1], RawBoxPool[3]>>}

PairDetectorOutputs ==
  {[text |-> NoTensor, link |-> NoTensor],
   [text |-> Float32(<<1, 1, 2, 2>>, << >>), link |-> Float32(<<1, 1, 2, 3>>, << >>)],
   [text |-> Float32(<<1, 1, 2, 2>>, << >>), link |-> Float32(<<1, 1, 2, 2>>, << >>)]}

PairRecognizerOutputs ==
  {NoTensor, Float32(<<1, 2, 3>>, <<0, 5, 0, 5, 0, 0>>)}

\* Object.assign(DEFAULT_OCR_OPTIONS, options) in place of the spread.
SharedDefaultsAssigned(options, defaults) ==
  IF options.some THEN options.v @@ defaults ELSE defaults

\* The shared record after resolveOcrOptions: it is read and spread into a
\* new object, none of its fields is written.
SharedDefaultsAfter(options, defaults) == defaults

\* The frame of a call as it reads its options: through its reference to
\* the shared record, or from its own object.
Deref(t, defaults) == IF t.shared THEN [t EXCEPT !.resolved = defaults] ELSE t

InFlight(t) == t.pc \in {"trace", "detector", "recognizer"}

\* The pair after caller c has run from s to t.
PairAfter(c, t, defaults) ==
  [pc |-> "calls",
   calls |-> [pair.calls EXCEPT ![c] = t],
   defaults |-> defaults,
   \* history: a call has run a step while the other call was in flight
   overlapped |-> pair.overlapped \/ \E d \in Callers \ {c} : InFlight(pair.calls[d])]

InitPair ==
  /\ \E first \in PairOptions, second \in PairOptions :
       pair = [pc |-> "calls",
               calls |-> <<TracedFrame(first, FALSE), TracedFrame(second, FALSE)>>,
               defaults |-> DEFAULT_OCR_OPTIONS,
               overlapped |-> FALSE]
  /\ dec = Idle
  /\ ign = Idle
  /\ prep = Idle
  /\ ocr = Idle
  /\ grp = Idle
  /\ mrg = Idle
  /\ trc = Idle
  /\ adp = Idle
  /\ ldr = Idle
  /\ flt = Idle
  /\ pad = Idle
  /\ crp = Idle
  /\ rot = Idle
  /\ fsw = Idle
  /\ det = Idle

PairCall ==
  /\ \E c \in Callers :
       /\ pair.calls[c].pc = "start"
       /\ pair' = PairAfter(c, Begin(pair.calls[c], pair.defaults),
                            SharedDefaultsAfter(pair.calls[c].options, pair.defaults))
  /\ UNCHANGED <<dec, ign, prep, ocr, grp, mrg, trc, adp, ldr, flt, pad, crp, rot, fsw, det>>

PairTraceStepResolves ==
  /\ \E c \in Callers :
       /\ pair.calls[c].pc = "trace"
       /\ pair' = PairAfter(c, Resume(Deref(pair.calls[c], pair.defaults)), pair.defaults)
  /\ UNCHANGED <<dec, ign, prep, ocr, grp, mrg, trc, adp, ldr, flt, pad, crp, rot, fsw, det>>

PairDetectorRejects ==
  /\ \E c \in Callers :
       /\ pair.calls[c].pc = "detector"
       /\ pair' = PairAfter(c, Throw(pair.calls[c], "detector session failed"), pair.defaults)
  /\ UNCHANGED <<dec, ign, prep, ocr, grp, mrg, trc, adp, ldr, flt, pad, crp, rot, fsw, det>>

PairDetectorResolves ==
  /\ \E c \in Callers :
       /\ pair.calls[c].pc = "detector"
       /\ \E outputs \in PairDetectorOutputs :
            \E raw \in (IF DetectorOutputError(outputs) = "" THEN PairRawLists ELSE {<< >>}) :
              pair' = PairAfter(c, OnDetectorOutputs(Deref(pair.calls[c], pair.defaults),
                                                     outputs, raw),
                                pair.defaults)
  /\ UNCHANGED <<dec, ign, prep, ocr, grp, mrg, trc, adp, ldr, flt, pad, crp, rot, fsw, det>>

PairRecognizerRejects ==
  /\ \E c \in Callers :
       /\ pair.calls[c].pc = "recognizer"
       /\ pair' = PairAfter(c, Throw(pair.calls[c], "recognizer session failed"),
                            pair.defaults)
  /\ UNCHANGED <<dec, ign, prep, ocr, grp, mrg, trc, adp, ldr, flt, pad, crp, rot, fsw, det>>

PairRecognizerResolves ==
  /\ \E c \in Callers :
       /\ pair.calls[c].pc = "recognizer"
       /\ \E output \in PairRecognizerOutputs :
            pair' = PairAfter(c, OnRecognizerOutput(Deref(pair.calls[c], pair.defaults),
                                                    output),
                              pair.defaults)
  /\ UNCHANGED <<dec, ign, prep, ocr, grp, mrg, trc, adp, ldr, flt, pad, crp, rot, fsw, det>>

NextPair ==
  \/ PairCall
  \/ PairTraceStepResolves
  \/ PairDetectorRejects
  \/ PairDetectorResolves
  \/ PairRecognizerRejects
  \/ PairRecognizerResolves

SpecPair == InitPair /\ [][NextPair]_vars

(***************************************************************************)
(* The detector adapter of the node package: CraftRunner.run on the        *)
(* outputs of the session.                                                 *)
(***************************************************************************)
\* Heatmap sides of the session outputs go up to MaxHeat.
MaxHeat == 2

\* A tensor of the session whose data are 1, 2, ... in storage order.
OrtTensor(type, dims) ==
  LET size == IF Len(dims) = 0 THEN 1
              ELSE LET F[i \in 0..Len(dims)] == IF i = 0 THEN 1 ELSE F[i - 1] * dims[i]
                   IN F[Len(dims)]
  IN [type |-> type, dims |-> dims, data |-> [i \in 1..size |-> i]]

Failed(message) ==
  [ok |-> FALSE, error |-> message, text |-> NoTensor.v, link |-> NoTensor.v]

\* fromOrtType
FromOrtType(type) == type \in {"float32", "int32", "uint8"}

\* fromOrtTensor
FromOrtTensor(tensor) ==
  [type |-> tensor.type, shape |-> tensor.dims, data |-> tensor.data]

\* data.subarray(from, to) with from and to counted from 0
Subarray(data, from, to) ==
  SubSeq(data, Min2(from, Len(data)) + 1, Min2(to, Len(data)))

\* The element of a Float32Array at an offset counted from 0; a read past
\* the end gives undefined, which a Float32Array stores as NaN (here 0).
ReadAt(data, offset) == IF offset < Len(data) THEN data[offset + 1] ELSE 0

\* splitCraftTensor
SplitCraftTensor(tensor) ==
  IF tensor.type # "float32" THEN Failed("Detector output must be float32.")
  ELSE IF Len(tensor.shape) # 4 THEN Failed("Detector output must be 4D")
  ELSE LET dims == tensor.shape IN
       IF dims[4] = 2
       THEN [ok |-> TRUE, error |-> "",
             text |-> [type |-> "float32", shape |-> <<1, dims[2], dims[3]>>,
                       data |-> [i \in 1..(dims[2] * dims[3]) |->
                                   ReadAt(tensor.data, 2 * (i - 1))]],
             link |-> [type |-> "float32", shape |-> <<1, dims[2], dims[3]>>,
                       data |-> [i \in 1..(dims[2] * dims[3]) |->
                                   ReadAt(tensor.data, 2 * (i - 1) + 1)]]]
       ELSE IF dims[2] = 2
       THEN [ok |-> TRUE, error |-> "",
             text |-> [type |-> "float32", shape |-> <<1, dims[3], dims[4]>>,
                       data |-> Subarray(tensor.data, 0, dims[3] * dims[4])],
             link |-> [type |-> "float32", shape |-> <<1, dims[3], dims[4]>>,
                       data |-> Subarray(tensor.data, dims[3] * dims[4],
                                         dims[3] * dims[4] * 2)]]
       ELSE Failed("Detector output channel dim not found")

\* outputs[name]: the positions of the entries with the name.
Named(outputs, name) == {i \in 1..Len(outputs) : outputs[i].name = name}

\* CraftRunner.run after await this.session.run(ortFeeds)
CraftRun(outputs, textName, linkName) ==
  LET texts == Named(outputs, textName)
      links == Named(outputs, linkName)
      candidates == {i \in 1..Len(outputs) :
                       LET dims == outputs[i].tensor.dims IN
                       Len(dims) = 4 /\ (dims[2] = 2 \/ dims[4] = 2)}
  IN IF texts # {} /\ links # {}
     THEN LET text == outputs[MinOf(texts)].tensor
              link == outputs[MinOf(links)].tensor
          IN IF ~FromOrtType(text.type) \/ ~FromOrtType(link.type)
             THEN Failed("Unsupported tensor type")
             ELSE [ok |-> TRUE, error |-> "",
                   text |-> FromOrtTensor(text), link |-> FromOrtTensor(link)]
     ELSE IF candidates = {}
     THEN Failed("Detector outputs do not include a 2-channel heatmap tensor.")
     ELSE LET candidate == outputs[MinOf(candidates)].tensor IN
          IF ~FromOrtType(candidate.type) THEN Failed("Unsupported tensor type")
          ELSE SplitCraftTensor(FromOrtTensor(candidate))

HeatSides == 1..MaxHeat

OrtTypes == {"float32", "int32", "int64"}

\* One heatmap [1,1,H,W] under a name.
PlainTensors ==
  {OrtTensor("float32", <<1, 1, h, w>>) : h \in HeatSides, w \in HeatSides}
    \cup {OrtTensor("int64", <<1, 1, 1, 1>>)}

\* One tensor that may carry both channels: channels last, channels first,
\* three channels, three axes; batches of one and of two.
CombinedTensors ==
  {OrtTensor(type, dims) :
     type \in OrtTypes,
     dims \in {<<n, h, w, 2>> : n \in 1..2, h \in HeatSides, w \in HeatSides}
         \cup {<<n, 2, h, w>> : n \in 1..2, h \in HeatSides, w \in HeatSides}
         \cup {<<1, 3, h, 1>> : h \in HeatSides}
         \cup {<<h, w, 2>> : h \in HeatSides, w \in HeatSides}}

Entry(name, tensor) == [name |-> name, tensor |-> tensor]

SessionOutputs ==
  {<< >>}
    \cup {<<Entry("text", t), Entry("link", l)>> : t \in PlainTensors, l \in PlainTensors}
    \cup {<<Entry("output", c)>> : c \in CombinedTensors}
    \cup {<<Entry("text", OrtTensor("float32", <<1, 1, 1, 1>>)), Entry("output", c)>> :
            c \in CombinedTensors}

InitAdapter ==
  /\ \E outputs \in SessionOutputs :
       adp = [pc |-> "session", outputs |-> outputs, result |-> Failed("")]
  /\ dec = Idle
  /\ ign = Idle
  /\ prep = Idle
  /\ ocr = Idle
  /\ grp = Idle
  /\ mrg = Idle
  /\ trc = Idle
  /\ pair = Idle
  /\ ldr = Idle
  /\ flt = Idle
  /\ pad = Idle
  /\ crp = Idle
  /\ rot = Idle
  /\ fsw = Idle
  /\ det = Idle

\* await this.session.run resolves and run goes on to its end.
CraftRunReturns ==
  /\ adp.pc = "session"
  /\ adp' = [adp EXCEPT !.pc = "done",
                        !.result = CraftRun(adp.outputs, "text", "link")]
  /\ UNCHANGED <<dec, ign, prep, ocr, grp, mrg, trc, pair, ldr, flt, pad, crp, rot, fsw, det>>

NextAdapter == CraftRunReturns

SpecAdapter == InitAdapter /\ [][NextAdapter]_vars

(***************************************************************************)
(* Model loading in the node package: loadSession and ensureModel.         *)
(* Strings are sequences of pieces, so that one string containing another  *)
(* can be decided.                                                         *)
(***************************************************************************)
\* needle occurs in text as a run of adjacent pieces.
Contains(text, needle) ==
  \E i \in 0..(Len(text) - Len(needle)) : SubSeq(text, i + 1, i + Len(needle)) = needle

ModelPaths ==
  {<<"/", "restricted", "/", "model", ".onnx">>,
   <<"/", "tmp", "/", "missing-model", ".onnx">>,
   <<"craft_mlt_25k", ".onnx">>,
   <<"models", "/", "onnx", "/", "english_g2", ".onnx">>,
   <<"/", "tmp", "/", "model", ".bin">>,
   <<"weights">>}

\* The models a call is given: a path, or bytes in memory.
ModelInputs ==
  {[isPath |-> TRUE, path |-> p] : p \in ModelPaths}
    \cup {[isPath |-> FALSE, path |-> << >>]}

\* nodePath.basename(modelPath)
Basename(path) ==
  LET slashes == {i \in 1..Len(path) : path[i] = "/"}
  IN IF slashes = {} THEN path ELSE SubSeq(path, MaxOf(slashes) + 1, Len(path))

\* nodePath.dirname(modelPath)
Dirname(path) ==
  LET slashes == {i \in 1..Len(path) : path[i] = "/"}
  IN IF slashes = {} THEN <<".">>
     ELSE IF MaxOf(slashes) = 1 THEN <<"/">>
     ELSE SubSeq(path, 1, MaxOf(slashes) - 1)

\* filename.endsWith('.onnx')
EndsWithOnnx(filename) == Len(filename) > 0 /\ filename[Len(filename)] = ".onnx"

MODELS_BASE_URL == <<"https://github.com/qduc/easyocr.js/releases/download/v0.0.1-alpha">>

ModelUrl(path) == MODELS_BASE_URL \o <<"/">> \o Basename(path)

\* The message of the error thrown for a response that is not ok.
DownloadFailure(path, response) ==
  <<"Failed to download model from ">> \o ModelUrl(path)
    \o <<": ", response.status, " ", response.statusText,
         ". Please ensure the model exists or run the export script manually.">>

\* What fetch resolves with.
Responses ==
  {[ok |-> TRUE, status |-> "200", statusText |-> "OK"],
   [ok |-> FALSE, status |-> "404", statusText |-> "Not Found"],
   [ok |-> FALSE, status |-> "500", statusText |-> "Internal Server Error"]}

\* The codes access rejects with.
AccessErrors == {"ENOENT", "EACCES"}

\* The messages InferenceSession.create rejects with: for a path, with the
\* path or without it; for bytes, a parse failure.
RuntimeMessages(model) ==
  IF model.isPath
  THEN {<<"Load model from ">> \o model.path \o <<" failed: File doesn't exist">>,
        <<"Invalid ONNX payload">>}
  ELSE {<<"Invalid ONNX payload">>, <<"Protobuf parsing failed.">>}

InitLoad ==
  /\ \E model \in ModelInputs :
       ldr = [pc |-> "start", model |-> model,
              accessError |-> "",      \* history: the code access rejected with
              downloaded |-> FALSE,    \* history: the model file was written
              runtimeMessage |-> << >>, \* history: what create rejected with
              error |-> << >>]
  /\ dec = Idle
  /\ ign = Idle
  /\ prep = Idle
  /\ ocr = Idle
  /\ grp = Idle
  /\ mrg = Idle
  /\ trc = Idle
  /\ pair = Idle
  /\ adp = Idle
  /\ flt = Idle
  /\ pad = Idle
  /\ crp = Idle
  /\ rot = Idle
  /\ fsw = Idle
  /\ det = Idle

\* loadSession up to its first await: access for a path, create for bytes.
LoadSessionCall ==
  /\ ldr.pc = "start"
  /\ ldr' = [ldr EXCEPT !.pc = IF ldr.model.isPath THEN "access" ELSE "create"]
  /\ UNCHANGED <<dec, ign, prep, ocr, grp, mrg, trc, pair, adp, flt, pad, crp, rot, fsw, det>>

\* await access(modelPath) resolves: ensureModel returns, create is called.
AccessResolves ==
  /\ ldr.pc = "access"
  /\ ldr' = [ldr EXCEPT !.pc = "create"]
  /\ UNCHANGED <<dec, ign, prep, ocr, grp, mrg, trc, pair, adp, flt, pad, crp, rot, fsw, det>>

\* await access(modelPath) rejects: the catch block returns for a file name
\* that does not end with .onnx, and else fetches the model.
AccessRejects ==
  /\ ldr.pc = "access"
  /\ \E code \in AccessErrors :
       ldr' = [ldr EXCEPT !.accessError = code,
                          !.pc = IF EndsWithOnnx(Basename(ldr.model.path))
                                 THEN "fetch" ELSE "create"]
  /\ UNCHANGED <<dec, ign, prep, ocr, grp, mrg, trc, pair, adp, flt, pad, crp, rot, fsw, det>>

\* await fetch(url) resolves.
FetchResolves ==
  /\ ldr.pc = "fetch"
  /\ \E response \in Responses :
       ldr' = IF response.ok THEN [ldr EXCEPT !.pc = "write"]
              ELSE [ldr EXCEPT !.pc = "rejected",
                               !.error = DownloadFailure(ldr.model.path, response)]
  /\ UNCHANGED <<dec, ign, prep, ocr, grp, mrg, trc, pair, adp, flt, pad, crp, rot, fsw, det>>

\* await fetch(url) rejects.
FetchRejects ==
  /\ ldr.pc = "fetch"
  /\ ldr' = [ldr EXCEPT !.pc = "rejected", !.error = <<"fetch failed">>]
  /\ UNCHANGED <<dec, ign, prep, ocr, grp, mrg, trc, pair, adp, flt, pad, crp, rot, fsw, det>>

\* arrayBuffer, mkdir and writeFile resolve: the file is there, create is called.
WriteResolves ==
  /\ ldr.pc = "write"
  /\ ldr' = [ldr EXCEPT !.pc = "create", !.downloaded = TRUE]
  /\ UNCHANGED <<dec, ign, prep, ocr, grp, mrg, trc, pair, adp, flt, pad, crp, rot, fsw, det>>

\* mkdir rejects.
WriteRejects ==
  /\ ldr.pc = "write"
  /\ ldr' = [ldr EXCEPT !.pc = "rejected",
                        !.error = <<"EACCES: permission denied, mkdir '">>
                                    \o Dirname(ldr.model.path) \o <<"'">>]
  /\ UNCHANGED <<dec, ign, prep, ocr, grp, mrg, trc, pair, adp, flt, pad, crp, rot, fsw, det>>

\* InferenceSession.create resolves: the file or the bytes were there.
CreateResolves ==
  /\ ldr.pc = "create"
  /\ ldr.accessError = "" \/ ldr.downloaded
  /\ ldr' = [ldr EXCEPT !.pc = "loaded"]
  /\ UNCHANGED <<dec, ign, prep, ocr, grp, mrg, trc, pair, adp, flt, pad, crp, rot, fsw, det>>

\* InferenceSession.create rejects: loadSession rejects with its error.
CreateRejects ==
  /\ ldr.pc = "create"
  /\ \E message \in RuntimeMessages(ldr.model) :
       ldr' = [ldr EXCEPT !.pc = "rejected", !.runtimeMessage = message,
                          !.error = message]
  /\ UNCHANGED <<dec, ign, prep, ocr, grp, mrg, trc, pair, adp, flt, pad, crp, rot, fsw, det>>

NextLoad ==
  \/ LoadSessionCall
  \/ AccessResolves
  \/ AccessRejects
  \/ FetchResolves
  \/ FetchRejects
  \/ WriteResolves
  \/ WriteRejects
  \/ CreateResolves
  \/ CreateRejects

SpecLoad == InitLoad /\ [][NextLoad]_vars

(***************************************************************************)
(* detectorPreprocess on the bytes of a raster: resizeImage, the padding   *)
(* to the stride, toFloatImage (utils.ts) and the planar tensor layout.    *)
(* A raster holds width * height * channels bytes, pixel after pixel, row  *)
(* after row; index i of a typed array is element i + 1 of the sequence.   *)
(* Floats are exact fractions here, NaN apart.                             *)
(***************************************************************************)
\* data[index] of a typed array: nothing (undefined) outside the buffer.
ByteAt(data, index) ==
  IF index >= 0 /\ index < Len(data) THEN Some(data[index + 1]) ELSE NoSeq

NaN == [nan |-> TRUE, num |-> 0, den |-> 1]

\* (c / 255 - mean) * (1 / std); undefined / 255 is NaN.
Normalized(c, mean, std) ==
  IF ~c.some THEN NaN
  ELSE [nan |-> FALSE,
        num |-> (c.v * mean.den - 255 * mean.num) * std.den,
        den |-> 255 * mean.den * std.num]

\* Math.round of the fraction num / den, den > 0: floor(num / den + 1/2).
RoundFraction(num, den) == (2 * num + den) \div (2 * den)

\* resizeImage: the image itself when the size is the same, otherwise the
\* bilinear mix of the four neighbours of each target pixel, channel by
\* channel, rounded and stored in a Uint8Array (modulo 256).
ResizeImage(image, targetWidth, targetHeight) ==
  IF targetWidth = image.width /\ targetHeight = image.height THEN image
  ELSE
    LET width == image.width
        height == image.height
        channels == image.channels
        dx == 2 * targetWidth
        dy == 2 * targetHeight
        Value(y, x, c) ==
          LET srcYn == (2 * y + 1) * height - targetHeight
              y0 == Clamp(srcYn \div dy, 0, height - 1)
              y1 == Clamp(y0 + 1, 0, height - 1)
              wyn == srcYn - y0 * dy
              srcXn == (2 * x + 1) * width - targetWidth
              x0 == Clamp(srcXn \div dx, 0, width - 1)
              x1 == Clamp(x0 + 1, 0, width - 1)
              wxn == srcXn - x0 * dx
              v00 == image.data[(y0 * width + x0) * channels + c + 1]
              v10 == image.data[(y0 * width + x1) * channels + c + 1]
              v01 == image.data[(y1 * width + x0) * channels + c + 1]
              v11 == image.data[(y1 * width + x1) * channels + c + 1]
              topn == v00 * dx + (v10 - v00) * wxn
              bottomn == v01 * dx + (v11 - v01) * wxn
          IN RoundFraction(topn * dy + (bottomn - topn) * wyn, dx * dy) % 256
    IN [data |-> [i \in 1..(targetWidth * targetHeight * channels) |->
                    LET q == (i - 1) \div channels
                    IN Value(q \div targetWidth, q % targetWidth, (i - 1) % channels)],
        width |-> targetWidth, height |-> targetHeight,
        channels |-> channels, channelOrder |-> image.channelOrder]

\* The padded raster of detectorPreprocess: a zeroed buffer into which each
\* row of the resized raster is copied.
PadRaster(resized, padRight, padBottom) ==
  LET paddedWidth == resized.width + padRight
      paddedHeight == resized.height + padBottom
      channels == resized.channels
  IN [data |-> [i \in 1..(paddedWidth * paddedHeight * channels) |->
                  LET q == (i - 1) \div channels
                      x == q % paddedWidth
                      y == q \div paddedWidth
                  IN IF x < resized.width /\ y < resized.height
                     THEN resized.data[(y * resized.width + x) * channels
                                       + ((i - 1) % channels) + 1]
                     ELSE 0],
      width |-> paddedWidth, height |-> paddedHeight,
      channels |-> channels, channelOrder |-> resized.channelOrder]

\* toFloatImage: for each pixel the bytes at srcIndex, srcIndex + 1 and
\* srcIndex + 2 with srcIndex = (y * width + x) * channels, the first and
\* the third swapped for bgr and bgra, each normalized with its mean and std.
ToFloatImage(image, mean, std) ==
  LET isBgr == image.channelOrder \in {"bgr", "bgra"}
      Pixel(p) ==
        LET srcIndex == p * image.channels
            c0 == ByteAt(image.data, srcIndex)
            c1 == ByteAt(image.data, srcIndex + 1)
            c2 == ByteAt(image.data, srcIndex + 2)
            r == IF isBgr THEN c2 ELSE c0
            g == c1
            b == IF isBgr THEN c0 ELSE c2
        IN <<Normalized(r, mean[1], std[1]), Normalized(g, mean[2], std[2]),
             Normalized(b, mean[3], std[3])>>
  IN [data |-> [i \in 1..(image.width * image.height * 3) |->
                  Pixel((i - 1) \div 3)[((i - 1) % 3) + 1]],
      width |-> image.width, height |-> image.height, channels |-> 3]

\* The tensor of detectorPreprocess: the three values of pixel p of the
\* float image at p, height * width + p and 2 * height * width + p.
ToPlanarTensor(floatImage) ==
  LET plane == floatImage.height * floatImage.width
  IN [data |-> [i \in 1..(3 * plane) |->
                  floatImage.data[((i - 1) % plane) * 3 + ((i - 1) \div plane) + 1]],
      shape |-> <<1, 3, floatImage.height, floatImage.width>>,
      type |-> "float32"]

\* detectorPreprocess with the bytes: the sizes are those of
\* DetectorPreprocess.
DetectorPreprocessRaster(image, options) ==
  LET sizes == DetectorPreprocess(image, options)
      resized == ResizeImage(image, sizes.resized.width, sizes.resized.height)
      padded == PadRaster(resized, sizes.padRight, sizes.padBottom)
      floatImage == ToFloatImage(padded, options.mean, options.std)
  IN [sizes EXCEPT !.input = ToPlanarTensor(floatImage),
                   !.resized = resized,
                   !.padded = padded]

(***************************************************************************)
(* Specification of the detector preprocessing of rasters with bytes       *)
(***************************************************************************)
\* Rasters of every width and height up to MaxRasterSide pixels.
MaxRasterSide == 3

ChannelOrders == {"rgb", "rgba", "bgr", "bgra", "gray"}

ChannelsOf(channelOrder) ==
  CASE channelOrder = "gray" -> 1
    [] channelOrder \in {"rgb", "bgr"} -> 3
    [] OTHER -> 4

\* The rasters of the pipeline tests, byte i being (i * 17) & 0xff, and the
\* same with every byte moved by first.
MakeImageWithChannels(width, height, channels, channelOrder, first) ==
  [data |-> [i \in 1..(width * height * channels) |-> ((i - 1) * 17 + first) % 256],
   width |-> width, height |-> height,
   channels |-> channels, channelOrder |-> channelOrder]

FirstBytes == {0, 100}

\* canvasSize 2 makes the larger rasters shrink; 2560 is the default.
RasterCanvasSizes == {2, 2560}

RasterAligns == {1, 2, 4}

InitFloat ==
  /\ dec = Idle
  /\ ign = Idle
  /\ prep = Idle
  /\ ocr = Idle
  /\ grp = Idle
  /\ mrg = Idle
  /\ trc = Idle
  /\ pair = Idle
  /\ adp = Idle
  /\ ldr = Idle
  /\ pad = Idle
  /\ crp = Idle
  /\ rot = Idle
  /\ fsw = Idle
  /\ det = Idle
  /\ \E w \in 1..MaxRasterSide, h \in 1..MaxRasterSide, o \in ChannelOrders,
        f \in FirstBytes, c \in RasterCanvasSizes, a \in RasterAligns :
       flt = [pc |-> "call",
              image |-> MakeImageWithChannels(w, h, ChannelsOf(o), o, f),
              options |-> [canvasSize |-> c, align |-> a] @@ DEFAULT_OCR_OPTIONS,
              out |-> NoSeq]

FloatRun ==
  /\ flt.pc = "call"
  /\ flt' = [flt EXCEPT !.pc = "done",
                        !.out = Some(DetectorPreprocessRaster(flt.image, flt.options))]
  /\ UNCHANGED <<dec, ign, prep, ocr, grp, mrg, trc, pair, adp, ldr, pad, crp, rot, fsw, det>>

NextFloat == FloatRun

SpecFloat == InitFloat /\ [][NextFloat]_vars

(***************************************************************************)
(* padToWidth (utils.ts): the replicate padder of planar float data        *)
(* (channel after channel, row after row).                                 *)
(***************************************************************************)
\* padToWidth with the new columns left at 0.
PadToWidthZeroFilled(data, width, height, channels, targetWidth) ==
  IF width >= targetWidth THEN data
  ELSE [i \in 1..(targetWidth * height * channels) |->
          LET c == (i - 1) \div (targetWidth * height)
              y == ((i - 1) % (targetWidth * height)) \div targetWidth
              x == (i - 1) % targetWidth
          IN IF x < width THEN data[c * width * height + y * width + x + 1] ELSE 0]

\* padToWidth: the data itself when width >= targetWidth; otherwise each
\* row copied and its columns width..targetWidth-1 set to lastValue, the
\* value at the end of the row (0 if there is none).
PadToWidth(data, width, height, channels, targetWidth) ==
  IF width >= targetWidth THEN data
  ELSE [i \in 1..(targetWidth * height * channels) |->
          LET c == (i - 1) \div (targetWidth * height)
              y == ((i - 1) % (targetWidth * height)) \div targetWidth
              x == (i - 1) % targetWidth
              rowOffset == c * width * height + y * width
              lastValue == OrElse(ByteAt(data, rowOffset + width - 1), 0)
          IN IF x < width THEN data[rowOffset + x + 1] ELSE lastValue]

(***************************************************************************)
(* Specification of the replicate padder alone                             *)
(***************************************************************************)
\* Planar images up to MaxPadSide pixels wide and high, padded to target
\* widths from 0 to MaxPadSide + 1.
MaxPadSide == 3

PadChannels == {1, 3}

\* Planar data whose value i is first + 7 * i, none of them 0.
PlanarData(width, height, channels, first) ==
  [i \in 1..(width * height * channels) |-> first + 7 * i]

InitPad ==
  /\ dec = Idle
  /\ ign = Idle
  /\ prep = Idle
  /\ ocr = Idle
  /\ grp = Idle
  /\ mrg = Idle
  /\ trc = Idle
  /\ pair = Idle
  /\ adp = Idle
  /\ ldr = Idle
  /\ flt = Idle
  /\ crp = Idle
  /\ rot = Idle
  /\ fsw = Idle
  /\ det = Idle
  /\ \E w \in 1..MaxPadSide, h \in 1..MaxPadSide, c \in PadChannels,
        t \in 0..(MaxPadSide + 1), f \in {-50, 1} :
       pad = [pc |-> "call", data |-> PlanarData(w, h, c, f),
              width |-> w, height |-> h, channels |-> c, targetWidth |-> t,
              out |-> << >>]

PadRun ==
  /\ pad.pc = "call"
  /\ pad' = [pad EXCEPT !.pc = "done",
                        !.out = PadToWidth(pad.data, pad.width, pad.height,
                                           pad.channels, pad.targetWidth)]
  /\ UNCHANGED <<dec, ign, prep, ocr, grp, mrg, trc, pair, adp, ldr, flt, crp, rot, fsw, det>>

NextPad == PadRun

SpecPad == InitPad /\ [][NextPad]_vars

(***************************************************************************)
(* cropBox (utils.ts) on the bytes of a raster.  The box is in half        *)
(* pixels, the raster in pixels.                                           *)
(***************************************************************************)
\* cropBox: the sides of the box clamped to 0..width and 0..height, a crop
\* at least one pixel wide and high, each of its pixels (x, y) copied from
\* the source pixel (minX + x, minY + y).  reads lists those source pixels
\* in the order of the copy; a byte read outside the buffer is undefined
\* and is stored as 0.
CropBoxRaster(image, box) ==
  LET minX == Clamp(FloorPx(MinOf(Xs(box))), 0, image.width)
      maxX == Clamp(CeilPx(MaxOf(Xs(box))), 0, image.width)
      minY == Clamp(FloorPx(MinOf(Ys(box))), 0, image.height)
      maxY == Clamp(CeilPx(MaxOf(Ys(box))), 0, image.height)
      width == Max2(1, maxX - minX)
      height == Max2(1, maxY - minY)
      channels == image.channels
  IN [data |-> [i \in 1..(width * height * channels) |->
                  LET q == (i - 1) \div channels
                      srcX == minX + (q % width)
                      srcY == minY + (q \div width)
                      srcIndex == (srcY * image.width + srcX) * channels
                  IN OrElse(ByteAt(image.data, srcIndex + ((i - 1) % channels)), 0)],
      reads |-> [q \in 1..(width * height) |->
                   <<minX + ((q - 1) % width), minY + ((q - 1) \div width)>>],
      width |-> width, height |-> height,
      channels |-> channels, channelOrder |-> image.channelOrder]

(***************************************************************************)
(* Specification of cropBox alone                                          *)
(***************************************************************************)
\* Rasters up to MaxCropSide pixels wide and high.
MaxCropSide == 3

\* The sides of the boxes along an axis of the given length, in half
\* pixels: a pixel and a half before the raster, its first edge, a pixel
\* and a half inside, its last edge, a pixel and a half behind it.
CropCoords(length) == {-3, 0, 3, length * Px, length * Px + 3}

CropBoxes(width, height) ==
  {RectBox(x0, y0, x1, y1) :
     x0 \in CropCoords(width), x1 \in CropCoords(width),
     y0 \in CropCoords(height), y1 \in CropCoords(height)}

InitCrop ==
  /\ dec = Idle
  /\ ign = Idle
  /\ prep = Idle
  /\ ocr = Idle
  /\ grp = Idle
  /\ mrg = Idle
  /\ trc = Idle
  /\ pair = Idle
  /\ adp = Idle
  /\ ldr = Idle
  /\ flt = Idle
  /\ pad = Idle
  /\ rot = Idle
  /\ fsw = Idle
  /\ det = Idle
  /\ \E w \in 1..MaxCropSide, h \in 1..MaxCropSide, o \in {"gray", "rgb"} :
       \E box \in {b \in CropBoxes(w, h) : b[1][1] <= b[2][1] /\ b[1][2] <= b[3][2]} :
         crp = [pc |-> "call",
                image |-> MakeImageWithChannels(w, h, ChannelsOf(o), o, 1),
                box |-> box, out |-> NoSeq]

CropRun ==
  /\ crp.pc = "call"
  /\ crp' = [crp EXCEPT !.pc = "done",
                        !.out = Some(CropBoxRaster(crp.image, crp.box))]
  /\ UNCHANGED <<dec, ign, prep, ocr, grp, mrg, trc, pair, adp, ldr, flt, pad, rot, fsw, det>>

NextCrop == CropRun

SpecCrop == InitCrop /\ [][NextCrop]_vars

(***************************************************************************)
(* rotateImage (utils.ts) on the bytes of a raster                         *)
(***************************************************************************)
\* ((angleDeg % 360) + 360) % 360
NormalizedAngle(angleDeg) == angleDeg % 360

\* rotateImage: the image itself for 0 degrees and for every angle that is
\* no multiple of 90; otherwise a new raster each pixel (x, y) of which is
\* copied from the source pixel (srcX, srcY).  reads lists those source
\* pixels in the order of the copy; a byte read outside the buffer is
\* undefined and is stored as 0.
RotateRaster(image, angleDeg) ==
  LET normalized == NormalizedAngle(angleDeg)
      width == image.width
      height == image.height
      channels == image.channels
      quarter == normalized = 90 \/ normalized = 270
      outWidth == IF quarter THEN height ELSE width
      outHeight == IF quarter THEN width ELSE height
      SrcX(x, y) == IF quarter
                    THEN (IF normalized = 90 THEN y ELSE outHeight - 1 - y)
                    ELSE width - 1 - x
      SrcY(x, y) == IF quarter
                    THEN (IF normalized = 90 THEN width - 1 - x ELSE x)
                    ELSE height - 1 - y
  IN IF normalized \notin {90, 180, 270} THEN image @@ [reads |-> << >>]
     ELSE [data |-> [i \in 1..(width * height * channels) |->
                       LET q == (i - 1) \div channels
                           x == q % outWidth
                           y == q \div outWidth
                           srcIndex == (SrcY(x, y) * width + SrcX(x, y)) * channels
                       IN OrElse(ByteAt(image.data, srcIndex + ((i - 1) % channels)), 0)],
           reads |-> [q \in 1..(width * height) |->
                        <<SrcX((q - 1) % outWidth, (q - 1) \div outWidth),
                          SrcY((q - 1) % outWidth, (q - 1) \div outWidth)>>],
           width |-> outWidth, height |-> outHeight,
           channels |-> channels, channelOrder |-> image.channelOrder]

\* The raster without the list of the pixels read for it.
Raster(r) ==
  [data |-> r.data, width |-> r.width, height |-> r.height,
   channels |-> r.channels, channelOrder |-> r.channelOrder]

(***************************************************************************)
(* Specification of rotateImage alone: a rotation, then the rotation by    *)
(* 360 degrees less on its result.                                         *)
(***************************************************************************)
\* Rasters up to MaxRotateSide pixels wide and high.
MaxRotateSide == 3

RotationAngles == {0, 45, 90, 180, 270, -90, 450}

InitRotate ==
  /\ dec = Idle
  /\ ign = Idle
  /\ prep = Idle
  /\ ocr = Idle
  /\ grp = Idle
  /\ mrg = Idle
  /\ trc = Idle
  /\ pair = Idle
  /\ adp = Idle
  /\ ldr = Idle
  /\ flt = Idle
  /\ pad = Idle
  /\ crp = Idle
  /\ fsw = Idle
  /\ det = Idle
  /\ \E w \in 1..MaxRotateSide, h \in 1..MaxRotateSide, o \in {"gray", "rgb"},
        a \in RotationAngles :
       rot = [pc |-> "call",
              image |-> MakeImageWithChannels(w, h, ChannelsOf(o), o, 1),
              angleDeg |-> a, first |-> NoSeq, second |-> NoSeq]

RotateCall ==
  /\ rot.pc = "call"
  /\ rot' = [rot EXCEPT !.pc = "rotated",
                        !.first = Some(RotateRaster(rot.image, rot.angleDeg))]
  /\ UNCHANGED <<dec, ign, prep, ocr, grp, mrg, trc, pair, adp, ldr, flt, pad, crp, fsw, det>>

RotateBack ==
  /\ rot.pc = "rotated"
  /\ rot' = [rot EXCEPT !.pc = "back",
                        !.second = Some(RotateRaster(Raster(rot.first.v),
                                                     360 - rot.angleDeg))]
  /\ UNCHANGED <<dec, ign, prep, ocr, grp, mrg, trc, pair, adp, ldr, flt, pad, crp, fsw, det>>

NextRotate ==
  \/ RotateCall
  \/ RotateBack

SpecRotate == InitRotate /\ [][NextRotate]_vars

(***************************************************************************)
(* FsTraceWriter.addStep (packages/node/src/trace.ts).  A name is a        *)
(* sequence of characters.  A call of addStep runs from one await to the   *)
(* next in one step; the calls share the writer's stepIndex and index, the *)
(* file trace.json and the directories under steps/.                       *)
(***************************************************************************)
LowerCase(c) ==
  CASE c = "A" -> "a"
    [] c = "B" -> "b"
    [] OTHER -> c

DigitChars == <<"0", "1", "2", "3", "4", "5", "6", "7", "8", "9">>

\* [a-z0-9] on the characters of the names.
IsNameChar(c) == c \in {"a", "b"} \cup {DigitChars[d] : d \in 1..10}

RECURSIVE TrimStart(_)
TrimStart(name) ==
  IF name # << >> /\ Head(name) = " " THEN TrimStart(Tail(name)) ELSE name

RECURSIVE TrimEnd(_)
TrimEnd(name) ==
  IF name # << >> /\ name[Len(name)] = " "
  THEN TrimEnd(SubSeq(name, 1, Len(name) - 1)) ELSE name

RECURSIVE ReplaceRuns(_, _)
\* .replace(/[^a-z0-9]+/g, '_'): inRun says that the character before was
\* replaced already.
ReplaceRuns(name, inRun) ==
  IF name = << >> THEN << >>
  ELSE IF IsNameChar(Head(name)) THEN <<Head(name)>> \o ReplaceRuns(Tail(name), FALSE)
  ELSE IF inRun THEN ReplaceRuns(Tail(name), TRUE)
  ELSE <<"_">> \o ReplaceRuns(Tail(name), TRUE)

RECURSIVE StripStart(_)
StripStart(name) ==
  IF name # << >> /\ Head(name) = "_" THEN StripStart(Tail(name)) ELSE name

RECURSIVE StripEnd(_)
StripEnd(name) ==
  IF name # << >> /\ name[Len(name)] = "_"
  THEN StripEnd(SubSeq(name, 1, Len(name) - 1)) ELSE name

\* sanitizeStepName
SanitizeStepName(name) ==
  LET trimmed == TrimEnd(TrimStart(name))
      lower == [i \in 1..Len(trimmed) |-> LowerCase(trimmed[i])]
      stripped == StripEnd(StripStart(ReplaceRuns(lower, FALSE)))
  IN IF stripped = << >> THEN <<"s", "t", "e", "p">> ELSE stripped

RECURSIVE NumberChars(_)
\* String(stepNo)
NumberChars(n) ==
  IF n < 10 THEN <<DigitChars[n + 1]>>
  ELSE NumberChars(n \div 10) \o <<DigitChars[(n % 10) + 1]>>

RECURSIVE PadStart(_, _, _)
\* .padStart(targetLength, padString) with a pad of one character
PadStart(chars, targetLength, padString) ==
  IF Len(chars) >= targetLength THEN chars
  ELSE PadStart(<<padString>> \o chars, targetLength, padString)

\* `${String(stepNo).padStart(3, '0')}_${sanitizeStepName(step.name)}`
DirName(stepNo, name) ==
  PadStart(NumberChars(stepNo), 3, "0") \o <<"_">> \o SanitizeStepName(name)

\* The awaited writes into the step directory between its mkdir and the
\* push onto index.steps, by the kind of the step; a float32 tensor laid
\* out as HW or HWC gets a preview.png as well.
WritesOf(step) ==
  CASE step.kind = "image" -> 4
    [] step.kind = "tensor" -> IF step.preview THEN 4 ELSE 3
    [] step.kind = "boxes" -> 4
    [] step.kind = "params" -> 2

MaxAddSteps == 2

TraceStepInput(name, kind, preview) == [name |-> name, kind |-> kind, preview |-> preview]

\* Steps to add: two whose names differ, one whose name is sanitized to
\* that of the first, and one whose name has no character left.
StepInputs ==
  {TraceStepInput(<<"a">>, "params", FALSE),
   TraceStepInput(<<" ", "A", "!">>, "tensor", FALSE),
   TraceStepInput(<<"a", " ", "B", "1">>, "params", FALSE),
   TraceStepInput(<<"!", "_">>, "params", FALSE)}

InitFsWriter ==
  /\ dec = Idle
  /\ ign = Idle
  /\ prep = Idle
  /\ ocr = Idle
  /\ grp = Idle
  /\ mrg = Idle
  /\ trc = Idle
  /\ pair = Idle
  /\ adp = Idle
  /\ ldr = Idle
  /\ flt = Idle
  /\ pad = Idle
  /\ crp = Idle
  /\ rot = Idle
  /\ det = Idle
  /\ fsw = [pc |-> "writer", stepIndex |-> 0, steps |-> << >>, file |-> NoSeq,
            dirs |-> {}, calls |-> << >>, overlapped |-> FALSE]

\* The calls that have begun and not yet resolved.
PendingCalls == {c \in 1..Len(fsw.calls) : fsw.calls[c].pc # "resolved"}

\* addStep is called: the call runs to await this.ensureBaseDirs().
AddStepCall ==
  /\ fsw.pc = "writer"
  /\ Len(fsw.calls) < MaxAddSteps
  /\ \E step \in StepInputs :
       fsw' = [fsw EXCEPT !.calls = Append(@, [pc |-> "ensureBaseDirs", step |-> step,
                                               stepNo |-> -1, dirName |-> << >>,
                                               writes |-> 0, written |-> << >>]),
                          !.overlapped = @ \/ PendingCalls # {}]
  /\ UNCHANGED <<dec, ign, prep, ocr, grp, mrg, trc, pair, adp, ldr, flt, pad, crp, rot, det>>

\* ensureBaseDirs has resolved: the call reads this.stepIndex, names the
\* directory and awaits its mkdir.
AfterEnsureBaseDirs(c) ==
  /\ fsw.calls[c].pc = "ensureBaseDirs"
  /\ fsw' = [fsw EXCEPT !.calls[c].pc = "mkdir",
                        !.calls[c].stepNo = fsw.stepIndex,
                        !.calls[c].dirName = DirName(fsw.stepIndex, fsw.calls[c].step.name)]
  /\ UNCHANGED <<dec, ign, prep, ocr, grp, mrg, trc, pair, adp, ldr, flt, pad, crp, rot, det>>

\* mkdir(stepDir, {recursive: true}) has resolved, whether the directory
\* was there or not: the call starts the first write of its kind.
AfterMkdir(c) ==
  /\ fsw.calls[c].pc = "mkdir"
  /\ fsw' = [fsw EXCEPT !.calls[c].pc = "write",
                        !.calls[c].writes = WritesOf(fsw.calls[c].step),
                        !.dirs = @ \cup {fsw.calls[c].dirName}]
  /\ UNCHANGED <<dec, ign, prep, ocr, grp, mrg, trc, pair, adp, ldr, flt, pad, crp, rot, det>>

\* A write into the step directory has resolved: the call starts the next
\* one or, after the last, pushes its entry, counts the step and starts
\* flushIndex with the index as it is then.
AfterWrite(c) ==
  /\ fsw.calls[c].pc = "write"
  /\ LET call == fsw.calls[c]
         entry == [index |-> call.stepNo, name |-> call.step.name,
                   kind |-> call.step.kind,
                   dir |-> <<"s", "t", "e", "p", "s", "/">> \o call.dirName]
     IN IF call.writes > 1
        THEN fsw' = [fsw EXCEPT !.calls[c].writes = @ - 1]
        ELSE fsw' = [fsw EXCEPT !.calls[c].pc = "flushIndex",
                                !.calls[c].writes = 0,
                                !.calls[c].written = Append(fsw.steps, entry),
                                !.steps = Append(@, entry),
                                !.stepIndex = @ + 1]
  /\ UNCHANGED <<dec, ign, prep, ocr, grp, mrg, trc, pair, adp, ldr, flt, pad, crp, rot, det>>

\* The writeFile of trace.json has resolved: the file holds what this call
\* serialized, and the call resolves.
AfterFlushIndex(c) ==
  /\ fsw.calls[c].pc = "flushIndex"
  /\ fsw' = [fsw EXCEPT !.calls[c].pc = "resolved",
                        !.file = Some(fsw.calls[c].written)]
  /\ UNCHANGED <<dec, ign, prep, ocr, grp, mrg, trc, pair, adp, ldr, flt, pad, crp, rot, det>>

NextFsWriter ==
  \/ AddStepCall
  \/ \E c \in 1..Len(fsw.calls) : AfterEnsureBaseDirs(c)
  \/ \E c \in 1..Len(fsw.calls) : AfterMkdir(c)
  \/ \E c \in 1..Len(fsw.calls) : AfterWrite(c)
  \/ \E c \in 1..Len(fsw.calls) : AfterFlushIndex(c)

SpecFsWriter == InitFsWriter /\ [][NextFsWriter]_vars

(***************************************************************************)
(* detectorPostprocessDebug (detector.ts): thresholds, the scan over the   *)
(* pixels with its flood fill, and the box of each component.  A heat map  *)
(* is [data, width, height] with scores in thousandths; element i of a     *)
(* typed array is element i + 1 of its sequence.  The function runs in one *)
(* piece; the model stops after every pixel of the scan and after every    *)
(* index taken from the queue, and the frame keeps, besides the locals,    *)
(* how often each pixel was put into the queue and what each closed        *)
(* component held.                                                         *)
(***************************************************************************)
\* The element of a set of one element.
The(S) == CHOOSE v \in S : TRUE

\* score > threshold, the score in thousandths
Above(score, threshold) == score * threshold.den > threshold.num * Milli

\* score < threshold
Below(score, threshold) == score * threshold.den < threshold.num * Milli

\* The loop that fills textScore, linkScore and combined.
Thresholded(text, link, options) ==
  [textScore |-> [i \in 1..(text.width * text.height) |->
                    IF Above(text.data[i], options.lowText) THEN 1 ELSE 0],
   linkScore |-> [i \in 1..(text.width * text.height) |->
                    IF Above(link.data[i], options.linkThreshold) THEN 1 ELSE 0],
   combined |-> [i \in 1..(text.width * text.height) |->
                   IF Above(text.data[i], options.lowText)
                        \/ Above(link.data[i], options.linkThreshold)
                   THEN 1 ELSE 0]]

\* The neighbours of idx that the fill looks at, in its order, without the
\* tests on the column: idx - 1 and idx + 1 are taken wherever they are
\* indices of the map.
NeighboursAcrossRows(idx, width, height) ==
  LET y == idx \div width
  IN (IF idx - 1 >= 0 THEN <<idx - 1>> ELSE << >>)
     \o (IF idx + 1 < width * height THEN <<idx + 1>> ELSE << >>)
     \o (IF y > 0 THEN <<idx - width>> ELSE << >>)
     \o (IF y < height - 1 THEN <<idx + width>> ELSE << >>)

\* The neighbours of idx that the fill looks at, in its order.
Neighbours(idx, width, height) ==
  LET x == idx % width
      y == idx \div width
  IN (IF x > 0 THEN <<idx - 1>> ELSE << >>)
     \o (IF x < width - 1 THEN <<idx + 1>> ELSE << >>)
     \o (IF y > 0 THEN <<idx - width>> ELSE << >>)
     \o (IF y < height - 1 THEN <<idx + width>> ELSE << >>)

\* queue[qTail++] = n on an Int32Array of the length size: a write past the
\* end is dropped.
Enqueue(f, n) ==
  [f EXCEPT !.queue = IF f.qTail < Len(f.queue) THEN [@ EXCEPT ![f.qTail + 1] = n] ELSE @,
            !.qTail = @ + 1,
            !.visited[n + 1] = 1,
            !.enqueued[n + 1] = @ + 1]

RECURSIVE PushNeighbours(_, _)
\* if (!visited[n] && combined[n]) { visited[n] = 1; queue[qTail++] = n }
\* for each neighbour in turn
PushNeighbours(f, ns) ==
  IF ns = << >> THEN f
  ELSE IF f.visited[Head(ns) + 1] = 0 /\ f.combined[Head(ns) + 1] = 1
  THEN The({PushNeighbours(pushed, Tail(ns)) : pushed \in {Enqueue(f, Head(ns))}})
  ELSE PushNeighbours(f, Tail(ns))

\* The filters with the one on the area left out.
ComponentKeptAnyArea(area, maxText, options) ==
  ~Below(maxText, options.textThreshold)

\* Neither if (area < 10) continue nor
\* if (maxText < options.textThreshold) continue skips the component.
ComponentKept(area, maxText, options) ==
  /\ ~(area < 10)
  /\ ~Below(maxText, options.textThreshold)

\* Math.trunc(Math.sqrt((area * Math.min(boxW, boxH)) / (boxW * boxH)) * 2)
Niter(area, boxW, boxH) ==
  MaxOf({n \in 0..(2 * area) :
           n * n * boxW * boxH <= 4 * area * Min2(boxW, boxH)})

\* dilateRectInPlace: inside the rectangle sx..ex-1, sy..ey-1 a pixel
\* becomes 255 when a pixel of the rectangle under the kSize x kSize kernel
\* anchored at floor(kSize / 2) is set, and 0 otherwise.
DilateRectInPlace(segmap, width, roi, kSize) ==
  LET roiW == roi.ex - roi.sx
      roiH == roi.ey - roi.sy
      anchor == kSize \div 2
      Hit(x, y) ==
        \E ky \in 0..(kSize - 1), kx \in 0..(kSize - 1) :
          LET yy == y + ky - anchor
              xx == x + kx - anchor
          IN /\ yy >= 0 /\ yy < roiH /\ xx >= 0 /\ xx < roiW
             /\ segmap[(roi.sy + yy) * width + roi.sx + xx + 1] # 0
  IN IF roiW <= 0 \/ roiH <= 0 THEN segmap
     ELSE [i \in 1..Len(segmap) |->
             LET x == ((i - 1) % width) - roi.sx
                 y == ((i - 1) \div width) - roi.sy
             IN IF x >= 0 /\ x < roiW /\ y >= 0 /\ y < roiH
                THEN (IF Hit(x, y) THEN 255 ELSE 0)
                ELSE segmap[i]]

\* cross(o, a, b)
Cross(o, a, b) == (a[1] - o[1]) * (b[2] - o[2]) - (a[2] - o[2]) * (b[1] - o[1])

\* while (chain.length >= 2 && cross(...) <= 0) chain.pop(): the chain is
\* cut back to its longest beginning that has fewer than two points or
\* turns left to p at its end.
PopWhileNotLeft(chain, p) ==
  SubSeq(chain, 1,
         MaxOf({k \in 0..Len(chain) :
                  k < 2 \/ Cross(chain[k - 1], chain[k], p) > 0}))

RECURSIVE ChainOver(_, _, _, _)
\* The chain after the points first..last of the order have been taken in
\* turn: each pops the end of the chain while it does not turn left and is
\* pushed.  The points are taken half by half.
ChainOver(ordered, first, last, chain) ==
  IF first > last THEN chain
  ELSE IF first = last
  THEN Append(PopWhileNotLeft(chain, ordered[first]), ordered[first])
  ELSE The({ChainOver(ordered, ((first + last) \div 2) + 1, last, half) :
              half \in {ChainOver(ordered, first, (first + last) \div 2, chain)}})

\* One of the two loops of convexHull over the points in the given order.
HullChain(ordered) == ChainOver(ordered, 1, Len(ordered), << >>)

\* points.slice().sort(...) by x, then by y, for points that are all
\* different: the points in the order of the columns, each column from
\* its smallest y.
SortedPoints(points) ==
  LET pointSet == {points[i] : i \in 1..Len(points)}
      xs == {p[1] : p \in pointSet}
      ys == {p[2] : p \in pointSet}
      rows == MaxOf(ys) - MinOf(ys) + 1
      cells == [k \in 1..((MaxOf(xs) - MinOf(xs) + 1) * rows) |->
                  <<MinOf(xs) + ((k - 1) \div rows), MinOf(ys) + ((k - 1) % rows)>>]
      IsGiven(p) == p \in pointSet
  IN SelectSeq(cells, IsGiven)

\* lower.pop(); upper.pop(); return lower.concat(upper)
HullOfChains(lower, upper) ==
  SubSeq(lower, 1, Len(lower) - 1) \o SubSeq(upper, 1, Len(upper) - 1)

\* convexHull of the sorted points
HullOfSorted(sorted) ==
  The({HullOfChains(lower, upper) :
         lower \in {HullChain(sorted)},
         upper \in {HullChain([i \in 1..Len(sorted) |-> sorted[Len(sorted) + 1 - i]])}})

\* convexHull
ConvexHull(points) ==
  IF Len(points) <= 1 THEN points
  ELSE The({HullOfSorted(sorted) : sorted \in {SortedPoints(points)}})

\* The hull is the four corners of a rectangle with sides along the axes,
\* listed from the corner of the smallest x and y along the x axis first.
IsUprightRectangle(hull) ==
  /\ Len(hull) = 4
  /\ hull[1][2] = hull[2][2] /\ hull[2][1] = hull[3][1]
  /\ hull[3][2] = hull[4][2] /\ hull[4][1] = hull[1][1]
  /\ hull[1][1] < hull[2][1] /\ hull[2][2] < hull[3][2]

\* minAreaRect from the hull on.  For a hull that is an upright rectangle
\* the first edge has the angle 0 and the rectangle found is the hull
\* itself; the edges that follow give the same area.  For a hull with a
\* slanted edge the rectangle comes out of the sines and cosines of the
\* edge angles; here it is the bounding rectangle along the axes, and no
\* heat map of this model has such a hull (HullsAreUpright).
RectOfHull(hull) ==
  IF Len(hull) = 2 THEN <<hull[1], hull[2], hull[2], hull[1]>>
  ELSE IF IsUprightRectangle(hull) THEN hull
  ELSE RectBox(MinOf({hull[i][1] : i \in 1..Len(hull)}),
               MinOf({hull[i][2] : i \in 1..Len(hull)}),
               MaxOf({hull[i][1] : i \in 1..Len(hull)}),
               MaxOf({hull[i][2] : i \in 1..Len(hull)}))

\* minAreaRect
MinAreaRect(points) ==
  IF Len(points) = 0 THEN << >>
  ELSE IF Len(points) = 1 THEN <<points[1], points[1], points[1], points[1]>>
  ELSE The({RectOfHull(hull) : hull \in {ConvexHull(points)}})

\* Math.abs(1 - ratio) <= 0.1 for ratio = max(w, h) / (min(w, h) + 1e-5),
\* from the squares of w and h (whole numbers below 400 * 400).
RatioNearOne(w2, h2) ==
  /\ Min2(w2, h2) > 0
  /\ 100 * Max2(w2, h2) <= 121 * Min2(w2, h2)

\* orderClockwiseStartTopLeft
OrderClockwiseStartTopLeft(box) ==
  IF Len(box) # 4 THEN box
  ELSE LET minSum == MinOf({box[i][1] + box[i][2] : i \in 1..4})
           start == MinOf({i \in 1..4 : box[i][1] + box[i][2] = minSum})
       IN [k \in 1..4 |-> box[((start - 1 + k - 1) % 4) + 1]]

\* segmap: 255 on the component, 0 again on its pixels where the link
\* score fired and the text score did not.
SegmapOf(f) ==
  LET inComponent == {f.component[k] : k \in 1..Len(f.component)}
  IN [i \in 1..(f.text.width * f.text.height) |->
        IF (i - 1) \in inComponent /\ ~(f.linkScore[i] = 1 /\ f.textScore[i] = 0)
        THEN 255 ELSE 0]

\* niter and the rectangle sx, sy, ex, ey around the component.
RoiOf(f, niter) ==
  [niter |-> niter,
   sx |-> Clamp(f.minX - niter, 0, f.text.width - 1),
   sy |-> Clamp(f.minY - niter, 0, f.text.height - 1),
   ex |-> Clamp(f.minX + (f.maxX - f.minX + 1) + niter + 1, 0, f.text.width),
   ey |-> Clamp(f.minY + (f.maxY - f.minY + 1) + niter + 1, 0, f.text.height)]

\* x and y of the pixels at the given indices.
PointsAt(indices, width) ==
  [k \in 1..Len(indices) |-> <<(indices[k] - 1) % width, (indices[k] - 1) \div width>>]

\* The set pixels of the rectangle, row by row.
PointsInRoi(segmap, width, roi) ==
  LET IsPoint(i) == /\ segmap[i] # 0
                    /\ ((i - 1) % width) >= roi.sx /\ ((i - 1) % width) < roi.ex
                    /\ ((i - 1) \div width) >= roi.sy /\ ((i - 1) \div width) < roi.ey
  IN The({PointsAt(indices, width) :
            indices \in {SelectSeq([i \in 1..Len(segmap) |-> i], IsPoint)}})

\* From the rectangle of minAreaRect to the box: the bounds of the points
\* replace a rectangle that is nearly a square.
BoxOfRect(rect, points) ==
  IF Len(rect) = 0 THEN NoSeq
  ELSE LET w2 == (rect[1][1] - rect[2][1]) * (rect[1][1] - rect[2][1])
                   + (rect[1][2] - rect[2][2]) * (rect[1][2] - rect[2][2])
           h2 == (rect[2][1] - rect[3][1]) * (rect[2][1] - rect[3][1])
                   + (rect[2][2] - rect[3][2]) * (rect[2][2] - rect[3][2])
       IN Some(OrderClockwiseStartTopLeft(
                 IF RatioNearOne(w2, h2)
                 THEN RectBox(MinOf({points[k][1] : k \in 1..Len(points)}),
                              MinOf({points[k][2] : k \in 1..Len(points)}),
                              MaxOf({points[k][1] : k \in 1..Len(points)}),
                              MaxOf({points[k][2] : k \in 1..Len(points)}))
                 ELSE rect))

\* if (!points.length) continue; minAreaRect; if (!boxPoints.length) continue
BoxOfPoints(points) ==
  IF Len(points) = 0 THEN NoSeq
  ELSE The({BoxOfRect(rect, points) : rect \in {MinAreaRect(points)}})

\* The points of a kept component: its segmap, dilated when niter > 0.
SegmentPoints(f) ==
  The({The({The({PointsInRoi(dilated, f.text.width, roi) :
                   dilated \in {IF roi.niter > 0
                                THEN DilateRectInPlace(segmap, f.text.width, roi,
                                                       1 + roi.niter)
                                ELSE segmap}}) :
              segmap \in {SegmapOf(f)}}) :
         roi \in {RoiOf(f, Niter(f.area, f.maxX - f.minX + 1, f.maxY - f.minY + 1))}})

\* What the scan does with a component after its fill: the box in heat
\* map pixels, or nothing.
ComponentBox(f) ==
  IF ~ComponentKept(f.area, f.maxText.v, f.options) THEN NoSeq
  ELSE The({BoxOfPoints(points) : points \in {SegmentPoints(f)}})

\* The hull of the points of a kept component is a point, a segment or an
\* upright rectangle.
HullIsUpright(f) ==
  ComponentKept(f.area, f.maxText.v, f.options) =>
    The({The({Len(hull) <= 2 \/ IsUprightRectangle(hull) :
                hull \in {ConvexHull(points)}}) :
           points \in {SegmentPoints(f)}})

\* A corner of a heat map box divided by the scales, in half pixels.
AdjustedBox(box, scaleX, scaleY) ==
  [k \in 1..4 |-> <<(box[k][1] * Px * scaleX.den) \div scaleX.num,
                    (box[k][2] * Px * scaleY.den) \div scaleY.num>>]

\* A heat map pair of the given size: every pixel has the scores of the
\* last block that covers it, (0, 0) outside the blocks.
Block(x0, y0, x1, y1, text, link) ==
  [x0 |-> x0, y0 |-> y0, x1 |-> x1, y1 |-> y1, text |-> text, link |-> link]

Scene(width, height, blocks) ==
  LET Covering(i) == {k \in 1..Len(blocks) :
                        /\ (i - 1) % width >= blocks[k].x0 /\ (i - 1) % width <= blocks[k].x1
                        /\ (i - 1) \div width >= blocks[k].y0
                        /\ (i - 1) \div width <= blocks[k].y1}
      Score(i, field) == IF Covering(i) = {} THEN 0 ELSE blocks[MaxOf(Covering(i))][field]
  IN [text |-> [data |-> [i \in 1..(width * height) |-> Score(i, "text")],
                width |-> width, height |-> height],
      link |-> [data |-> [i \in 1..(width * height) |-> Score(i, "link")],
                width |-> width, height |-> height]]

\* The maps of the tests (a 3 x 4 block of 0.9 in 8 x 8, all ones, all
\* zeros), blocks of 9 and of 12 pixels, blocks below and at the text
\* threshold, one row and one column of ten pixels, two blocks joined by
\* link pixels, two blocks apart, a link block, and two columns of five
\* pixels at the right and the left edge, one row apart.
BlockScenes ==
  {Scene(8, 8, <<Block(2, 2, 5, 4, 900, 0)>>),
   Scene(4, 4, <<Block(0, 0, 3, 3, 1000, 1000)>>),
   Scene(4, 4, << >>),
   Scene(5, 4, <<Block(1, 1, 3, 3, 900, 0)>>),
   Scene(6, 4, <<Block(1, 1, 4, 3, 500, 0)>>),
   Scene(6, 4, <<Block(1, 1, 4, 3, 500, 0), Block(2, 2, 2, 2, 700, 0)>>),
   Scene(10, 1, <<Block(0, 0, 9, 0, 900, 0)>>),
   Scene(1, 10, <<Block(0, 0, 0, 9, 900, 0)>>),
   Scene(9, 3, <<Block(3, 1, 5, 1, 0, 500), Block(0, 0, 2, 2, 900, 0),
                 Block(6, 0, 8, 2, 900, 0)>>),
   Scene(8, 4, <<Block(0, 0, 2, 3, 900, 0), Block(5, 0, 7, 3, 900, 0)>>),
   Scene(5, 4, <<Block(1, 0, 4, 2, 0, 500)>>),
   Scene(4, 6, <<Block(3, 0, 3, 4, 900, 0), Block(0, 1, 0, 5, 900, 0)>>)}

\* Every map of a few small sizes whose pixels are empty, text or link.
SmallMapSizes == {<<1, 1>>, <<2, 2>>, <<3, 2>>}

PixelScores == {<<0, 0>>, <<900, 0>>, <<0, 500>>}

SmallScenes ==
  UNION {{[text |-> [data |-> [i \in 1..(s[1] * s[2]) |-> px[i][1]],
                     width |-> s[1], height |-> s[2]],
           link |-> [data |-> [i \in 1..(s[1] * s[2]) |-> px[i][2]],
                     width |-> s[1], height |-> s[2]]] :
            px \in [1..(s[1] * s[2]) -> PixelScores]} : s \in SmallMapSizes}

\* Options of the post-processing: the defaults with minSize 20, 1 and 0,
\* a text threshold of 0 and a low text threshold above the text threshold.
DetectorOptions ==
  {[DEFAULT_OCR_OPTIONS EXCEPT !.minSize = 20],
   [DEFAULT_OCR_OPTIONS EXCEPT !.minSize = 1],
   [DEFAULT_OCR_OPTIONS EXCEPT !.minSize = 0],
   [DEFAULT_OCR_OPTIONS EXCEPT !.minSize = 1, !.textThreshold = Rat(0, 1)],
   [DEFAULT_OCR_OPTIONS EXCEPT !.minSize = 1, !.lowText = Rat(800, Milli)]}

DetectorScales == {Rat(1, 1), Rat(1, 2)}

DetectFrame(maps, options, scale) ==
  [pc |-> "call", text |-> maps.text, link |-> maps.link, options |-> options,
   scaleX |-> scale, scaleY |-> scale,
   textScore |-> << >>, linkScore |-> << >>, combined |-> << >>,
   visited |-> << >>, queue |-> << >>, enqueued |-> << >>,
   i |-> 0, qHead |-> 0, qTail |-> 0,
   minX |-> 0, maxX |-> 0, minY |-> 0, maxY |-> 0, maxText |-> NoSeq, area |-> 0,
   component |-> << >>, closed |-> << >>,
   rawBoxesHeatmap |-> << >>, rawBoxesAdjusted |-> << >>,
   horizontalList |-> << >>, freeList |-> << >>]

InitDetect ==
  /\ dec = Idle
  /\ ign = Idle
  /\ prep = Idle
  /\ ocr = Idle
  /\ grp = Idle
  /\ mrg = Idle
  /\ trc = Idle
  /\ pair = Idle
  /\ adp = Idle
  /\ ldr = Idle
  /\ flt = Idle
  /\ pad = Idle
  /\ crp = Idle
  /\ rot = Idle
  /\ fsw = Idle
  /\ \/ \E maps \in BlockScenes, options \in DetectorOptions, scale \in DetectorScales :
          det = DetectFrame(maps, options, scale)
     \/ \E maps \in SmallScenes :
          det = DetectFrame(maps, [DEFAULT_OCR_OPTIONS EXCEPT !.minSize = 1], Rat(1, 1))

\* The call up to the scan: the three masks, visited and the queue.
DetectCall ==
  /\ det.pc = "call"
  /\ \E size \in {det.text.width * det.text.height},
        masks \in {Thresholded(det.text, det.link, det.options)} :
       det' = [det EXCEPT !.pc = "scan",
                           !.textScore = masks.textScore,
                           !.linkScore = masks.linkScore,
                           !.combined = masks.combined,
                           !.visited = [i \in 1..size |-> 0],
                           !.queue = [i \in 1..size |-> 0],
                           !.enqueued = [i \in 1..size |-> 0]]
  /\ UNCHANGED <<dec, ign, prep, ocr, grp, mrg, trc, pair, adp, ldr, flt, pad, crp, rot, fsw>>

\* if (!combined[i] || visited[i]) continue
ScanSkip ==
  /\ det.pc = "scan"
  /\ det.i < det.text.width * det.text.height
  /\ det.combined[det.i + 1] = 0 \/ det.visited[det.i + 1] = 1
  /\ det' = [det EXCEPT !.i = @ + 1]
  /\ UNCHANGED <<dec, ign, prep, ocr, grp, mrg, trc, pair, adp, ldr, flt, pad, crp, rot, fsw>>

\* A set pixel not visited yet starts a component: it is put into the
\* emptied queue and the locals of the fill are reset.
ScanSeed ==
  /\ det.pc = "scan"
  /\ det.i < det.text.width * det.text.height
  /\ det.combined[det.i + 1] = 1 /\ det.visited[det.i + 1] = 0
  /\ det' = Enqueue([det EXCEPT !.pc = "fill", !.qHead = 0, !.qTail = 0,
                                !.minX = det.text.width - 1, !.maxX = 0,
                                !.minY = det.text.height - 1, !.maxY = 0,
                                !.maxText = NoSeq, !.area = 0,
                                !.component = << >>],
                    det.i)
  /\ UNCHANGED <<dec, ign, prep, ocr, grp, mrg, trc, pair, adp, ldr, flt, pad, crp, rot, fsw>>

\* One turn of while (qHead < qTail): an index leaves the queue, joins the
\* component and puts its unvisited set neighbours into the queue.
FillVisit ==
  /\ det.pc = "fill"
  /\ det.qHead < det.qTail
  /\ \E idx \in {det.queue[det.qHead + 1]} :
       \E taken \in {[det EXCEPT
                        !.qHead = @ + 1,
                        !.component = Append(@, idx),
                        !.area = @ + 1,
                        !.minX = Min2(@, idx % det.text.width),
                        !.maxX = Max2(@, idx % det.text.width),
                        !.minY = Min2(@, idx \div det.text.width),
                        !.maxY = Max2(@, idx \div det.text.width),
                        !.maxText = IF ~det.maxText.some
                                         \/ det.text.data[idx + 1] > det.maxText.v
                                    THEN Some(det.text.data[idx + 1]) ELSE @]} :
         det' = PushNeighbours(taken, Neighbours(idx, det.text.width, det.text.height))
  /\ UNCHANGED <<dec, ign, prep, ocr, grp, mrg, trc, pair, adp, ldr, flt, pad, crp, rot, fsw>>

\* The queue is empty: the component is dropped or its box is pushed, and
\* the scan goes on with the next pixel.
FillEnd ==
  /\ det.pc = "fill"
  /\ det.qHead >= det.qTail
  /\ \E box \in {ComponentBox(det)} :
       det' = [det EXCEPT !.pc = "scan", !.i = @ + 1,
                           !.closed = Append(@, [pixels |-> det.component,
                                                 area |-> det.area,
                                                 maxText |-> det.maxText.v,
                                                 emitted |-> box.some,
                                                 upright |-> HullIsUpright(det)]),
                           !.rawBoxesHeatmap = IF box.some THEN Append(@, box.v) ELSE @,
                           !.rawBoxesAdjusted =
                              IF box.some
                              THEN Append(@, AdjustedBox(box.v, det.scaleX, det.scaleY))
                              ELSE @]
  /\ UNCHANGED <<dec, ign, prep, ocr, grp, mrg, trc, pair, adp, ldr, flt, pad, crp, rot, fsw>>

\* The scan is over: groupTextBoxes(rawBoxesAdjusted, options) and return.
ScanEnd ==
  /\ det.pc = "scan"
  /\ det.i >= det.text.width * det.text.height
  /\ \E grouped \in {GroupTextBoxes(det.rawBoxesAdjusted, det.options)} :
       det' = [det EXCEPT !.pc = "returned",
                           !.horizontalList = grouped.horizontalList,
                           !.freeList = grouped.freeList]
  /\ UNCHANGED <<dec, ign, prep, ocr, grp, mrg, trc, pair, adp, ldr, flt, pad, crp, rot, fsw>>

NextDetect ==
  \/ DetectCall
  \/ ScanSkip
  \/ ScanSeed
  \/ FillVisit
  \/ FillEnd
  \/ ScanEnd

SpecDetect == InitDetect /\ [][NextDetect]_vars

\* A step of the loops: of the scan over the pixels or of a fill.
ScanStep ==
  \/ DetectCall
  \/ ScanSkip
  \/ ScanSeed
  \/ FillVisit
  \/ FillEnd

\* The loops run on once the function is called: no step of them waits
\* for anything.
SpecDetectFair == SpecDetect /\ WF_vars(ScanStep)

(***************************************************************************)
(* Claims about the decoder                                                *)
(***************************************************************************)
\* The classes of a call, and the recognizer being well formed: one
\* character per class other than the blank, the blank among the classes.
ClassesOf(d) == 0..(d.classes - 1)

WellFormed(d) ==
  /\ Len(d.charset) = d.classes - 1
  /\ d.blankIndex \in ClassesOf(d)

\* b is the argmax of step t over the classes in `among`: the first class
\* that holds the largest logit.
IsArgmaxAmong(d, t, b, among) ==
  /\ b \in among
  /\ \A c \in among :
       /\ LogitAt(d.logits, d.classes, t, c) <= LogitAt(d.logits, d.classes, t, b)
       /\ c < b => LogitAt(d.logits, d.classes, t, c) < LogitAt(d.logits, d.classes, t, b)

RECURSIVE CollapseRuns(_)
\* Runs of consecutive equal indices collapsed to one index each.
CollapseRuns(s) ==
  IF Len(s) <= 1 THEN s
  ELSE IF s[1] = s[2] THEN CollapseRuns(Tail(s))
  ELSE <<s[1]>> \o CollapseRuns(Tail(s))

RemoveBlanks(s, blankIndex) == SelectSeq(s, LAMBDA i : i # blankIndex)

RECURSIVE CharsOf(_, _, _)
CharsOf(s, charset, blankIndex) ==
  IF s = << >> THEN << >>
  ELSE IndexToChar(Head(s), charset, blankIndex) \o CharsOf(Tail(s), charset, blankIndex)

\* The steps that emit by the rule of the claim: the best index is not the
\* blank and differs from the best index of the step before.
EmitsAt(best, blankIndex, t) ==
  /\ best[t] # blankIndex
  /\ t > 1 => best[t] # best[t - 1]

RECURSIVE EmittedByRule(_, _, _)
EmittedByRule(best, blankIndex, t) ==
  IF t > Len(best) THEN << >>
  ELSE (IF EmitsAt(best, blankIndex, t) THEN <<best[t]>> ELSE << >>)
       \o EmittedByRule(best, blankIndex, t + 1)

\* C5: with an empty ignore set the decoder returns the characters of the
\* per-step argmax sequence after collapsing runs of equal indices and then
\* removing blanks; for a well-formed recognizer a step emits a character
\* iff its best index is not the blank and differs from the previous
\* step's best index, so a class repeated across a blank step is emitted
\* twice and steps that all peak on one non-blank class yield exactly one
\* character of that class.
C5_CollapseThenRemoveBlanks ==
  (dec.pc = "done" /\ dec.ignoreIdx = {}) =>
    /\ Len(dec.bestSeq) = dec.steps
    /\ \A t \in 1..dec.steps : IsArgmaxAmong(dec, t - 1, dec.bestSeq[t], ClassesOf(dec))
    /\ dec.text = CharsOf(RemoveBlanks(CollapseRuns(dec.bestSeq), dec.blankIndex),
                          dec.charset, dec.blankIndex)
    /\ WellFormed(dec) =>
         /\ dec.emitted = EmittedByRule(dec.bestSeq, dec.blankIndex, 1)
         /\ Len(dec.text) = Len(dec.emitted)
         /\ \A k \in ClassesOf(dec) \ {dec.blankIndex} :
              /\ (dec.steps >= 1 /\ \A t \in 1..dec.steps : dec.bestSeq[t] = k)
                   => dec.text = IndexToChar(k, dec.charset, dec.blankIndex)
              /\ dec.bestSeq = <<k, dec.blankIndex, k>>
                   => dec.text = IndexToChar(k, dec.charset, dec.blankIndex)
                                 \o IndexToChar(k, dec.charset, dec.blankIndex)

\* Witness of C5: 'a', blank, 'a' decoded as "aa".
C5_Witness ==
  /\ dec.pc = "done"
  /\ dec.ignoreIdx = {}
  /\ dec.classes = 3
  /\ dec.charset = <<"a", "b">>
  /\ dec.blankIndex = 0
  /\ dec.bestSeq = <<1, 0, 1>>
  /\ dec.text = <<"a", "a">>

\* C6: the decoder returns confidence 0 whenever the returned text is
\* empty, for every logits tensor, charset, blank index and ignore set.
C6_EmptyTextZeroConfidence ==
  (dec.pc = "done" /\ dec.text = << >>) => dec.confidence = 0

\* C7: with ignore set S every step chooses the argmax over the classes not
\* in S, no emitted character comes from a class in S, and a step whose
\* unrestricted best class is in S falls back to the best remaining class
\* (charset "abc", class 1 best at t=0, class 2 best at t=1,2, S={2}: "a").
C7_ArgmaxOverNotIgnored ==
  dec.pc = "done" =>
    /\ \A t \in 1..dec.steps :
         (ClassesOf(dec) \ dec.ignoreIdx # {})
           => IsArgmaxAmong(dec, t - 1, dec.bestSeq[t], ClassesOf(dec) \ dec.ignoreIdx)
    /\ \A i \in 1..Len(dec.emitted) : dec.emitted[i] \notin dec.ignoreIdx
    /\ (ClassesOf(dec) \ dec.ignoreIdx = {}) => dec.text = << >>
    /\ ( /\ dec.charset = <<"a", "b", "c">>
         /\ dec.blankIndex = 0
         /\ dec.ignoreIdx = {2}
         /\ dec.steps = 3
         /\ IsArgmaxAmong(dec, 0, 1, ClassesOf(dec))
         /\ IsArgmaxAmong(dec, 1, 2, ClassesOf(dec))
         /\ IsArgmaxAmong(dec, 2, 2, ClassesOf(dec))
         /\ \A t \in 1..2 : \A c \in ClassesOf(dec) \ {2} :
              LogitAt(dec.logits, dec.classes, t, c) = 0 )
       => dec.text = <<"a">>

\* Witness of C7: the example of the claim, with the ignored class 2 the
\* unrestricted best of steps 1 and 2.
C7_Witness ==
  /\ dec.pc = "done"
  /\ dec.charset = <<"a", "b", "c">>
  /\ dec.blankIndex = 0
  /\ dec.ignoreIdx = {2}
  /\ dec.steps = 3
  /\ IsArgmaxAmong(dec, 0, 1, ClassesOf(dec))
  /\ IsArgmaxAmong(dec, 1, 2, ClassesOf(dec))
  /\ IsArgmaxAmong(dec, 2, 2, ClassesOf(dec))
  /\ dec.bestSeq = <<1, 0, 0>>
  /\ dec.text = <<"a">>

(***************************************************************************)
(* Claims about the ignore-index synthesis                                 *)
(***************************************************************************)
IgnBlank == OrElse(ign.recognizer.blankIndex, 0)

IgnPositions == 0..(Len(ign.recognizer.charset) - 1)

\* The character at charset position k is ignored: its class index is in
\* the synthesized list.
IgnoredAt(k) == GetOutputIndex(k, IgnBlank) \in Range(ign.ignoreIndices)

IgnCharAt(k) == ign.recognizer.charset[k + 1]

IgnLanguageChars ==
  UNION {LanguageChars(ign.options.langList.v[i]) : i \in 1..Len(ign.options.langList.v)}

\* C8 as stated: the ignore set comes from exactly one option, by priority
\* allowlist, then blocklist, then langList: with an allowlist given a
\* character is ignored iff it is not in the allowlist; with no allowlist
\* but a blocklist given, iff it is in the blocklist; with neither given
\* but a langList given, iff it is not in the union of the language
\* character sets and the default symbols.
C8_PriorityOfGivenOptions ==
  ign.pc = "built" =>
    /\ ign.options.allowlist.some
         => \A k \in IgnPositions :
              IgnoredAt(k) <=> IgnCharAt(k) \notin Range(ign.options.allowlist.v)
    /\ (~ign.options.allowlist.some /\ ign.options.blocklist.some)
         => \A k \in IgnPositions :
              IgnoredAt(k) <=> IgnCharAt(k) \in Range(ign.options.blocklist.v)
    /\ (~ign.options.allowlist.some /\ ~ign.options.blocklist.some
          /\ ign.options.langList.some)
         => \A k \in IgnPositions :
              IgnoredAt(k) <=> IgnCharAt(k) \notin (IgnLanguageChars \cup Range(DefaultSymbols))

\* C8 as amended: an empty option counts as not given, and the symbols are
\* the recognizer's own when it declares some.  With a non-empty allowlist
\* a character is ignored iff it is not in the allowlist, whatever the
\* other options are; with no non-empty allowlist but a non-empty
\* blocklist, iff it is in the blocklist; with neither but a non-empty
\* langList, iff it is not in the union of the character sets of the known
\* languages of the list and the symbols; with none of them, no character
\* is ignored.  The list holds class indices of charset positions only.
C8_PriorityOfNonEmptyOptions ==
  ign.pc = "built" =>
    LET allow == Truthy(ign.options.allowlist)
        block == Truthy(ign.options.blocklist)
        langs == ign.options.langList.some /\ Len(ign.options.langList.v) > 0
    IN /\ allow
            => \A k \in IgnPositions :
                 IgnoredAt(k) <=> IgnCharAt(k) \notin Range(ign.options.allowlist.v)
       /\ (~allow /\ block)
            => \A k \in IgnPositions :
                 IgnoredAt(k) <=> IgnCharAt(k) \in Range(ign.options.blocklist.v)
       /\ (~allow /\ ~block /\ langs)
            => \A k \in IgnPositions :
                 IgnoredAt(k) <=>
                   IgnCharAt(k) \notin
                     (IgnLanguageChars
                        \cup Range(OrElse(ign.recognizer.symbols, DefaultSymbols)))
       /\ (~allow /\ ~block /\ ~langs) => ign.ignoreIndices = << >>
       /\ Range(ign.ignoreIndices) \subseteq {GetOutputIndex(k, IgnBlank) : k \in IgnPositions}

\* Witness of C8: a non-empty allowlist and a non-empty blocklist, and a
\* character of the blocklist that the allowlist keeps from being ignored.
C8_Witness ==
  /\ ign.pc = "built"
  /\ Truthy(ign.options.allowlist)
  /\ Truthy(ign.options.blocklist)
  /\ ign.options.langList.some
  /\ ign.ignoreIndices # << >>
  /\ \E k \in IgnPositions :
       /\ IgnCharAt(k) \in Range(ign.options.blocklist.v)
       /\ IgnCharAt(k) \in Range(ign.options.allowlist.v)
       /\ ~IgnoredAt(k)

\* C9: for every blank index and every charset position k, the class index
\* the synthesis assigns to k is never the blank index, and the decoder's
\* index-to-character mapping sends it back to charset[k].
C9_BlankOffsetRoundTrip ==
  /\ ign.pc \in {"built", "probed"} =>
       /\ \A i \in 1..Len(ign.ignoreIndices) : ign.ignoreIndices[i] # IgnBlank
       /\ \A i \in 1..Len(ign.ignoreIndices) :
            \E k \in IgnPositions :
              /\ ign.ignoreIndices[i] = GetOutputIndex(k, IgnBlank)
              /\ IndexToChar(ign.ignoreIndices[i], ign.recognizer.charset, IgnBlank)
                   = <<IgnCharAt(k)>>
  /\ ign.pc = "probed" =>
       /\ ign.probe.classIndex # IgnBlank
       /\ ign.probe.char = <<IgnCharAt(ign.probe.charsetIndex)>>

\* Witness of C9: a position at or above a non-zero blank index, shifted
\* by one and mapped back.
C9_Witness ==
  /\ ign.pc = "probed"
  /\ IgnBlank = 1
  /\ ign.probe.charsetIndex = 1
  /\ ign.probe.classIndex = 2
  /\ ign.probe.char = <<IgnCharAt(1)>>
  /\ ign.ignoreIndices # << >>

(***************************************************************************)
(* Claims about the detector preprocessing                                 *)
(***************************************************************************)
\* x is a whole multiple of m (only 0 is a multiple of 0).
IsMultipleOf(x, m) == \E k \in 0..x : x = k * m

\* C10: for every image size and every canvasSize, magRatio and align,
\* detectorPreprocess emits a tensor of shape [1,3,H',W'] with H' and W'
\* multiples of align and max(H',W') at most canvasSize.
C10_ShapeAlignedAndCapped ==
  prep.pc = "done" =>
    LET shape == prep.out.v.input.shape IN
    /\ Len(shape) = 4
    /\ shape[1] = 1
    /\ shape[2] = 3
    /\ IsMultipleOf(shape[3], prep.options.align)
    /\ IsMultipleOf(shape[4], prep.options.align)
    /\ Max2(shape[3], shape[4]) <= prep.options.canvasSize

\* The part of C10 the code keeps: the shape is [1,3,H',W'] and both sides
\* are multiples of the stride (align, or 32 when align is 0).
PrepShapeAlignedToStride ==
  prep.pc = "done" =>
    LET shape == prep.out.v.input.shape
        stride == IF prep.options.align # 0 THEN prep.options.align ELSE 32
    IN /\ Len(shape) = 4
       /\ shape[1] = 1
       /\ shape[2] = 3
       /\ shape[3] % stride = 0
       /\ shape[4] % stride = 0

\* An input of C10 with align dividing neither side of the resized image and
\* canvasSize not a multiple of align: 8x4 pixels, canvasSize 6, align 4.
PrepCanvasExceeded ==
  /\ prep.pc = "done"
  /\ prep.image = [width |-> 8, height |-> 4]
  /\ prep.options.canvasSize = 6
  /\ prep.options.align = 4
  /\ prep.options.magRatio = Rat(1, 1)
  /\ prep.out.v.input.shape = <<1, 3, 4, 8>>

(***************************************************************************)
(* Claims about the recognize call                                         *)
(***************************************************************************)
\* The list is ascending by the minimum Y of the boxes, ties by minimum X.
SortedByMinYMinX(list) ==
  \A i \in 1..Len(list) - 1 :
    ~KeyLess(<<MinOf(Ys(list[i + 1].box)), MinOf(Xs(list[i + 1].box))>>,
             <<MinOf(Ys(list[i].box)), MinOf(Xs(list[i].box))>>)

\* The crops that carry one rotation tag, as results, in crop order.
ResultsTagged(rotation) == ByRotation(ocr.results, rotation)

\* The rotation tags of the crops in order of first appearance.
TagsOfCrops ==
  LET F[i \in 0..Len(ocr.crops)] ==
        IF i = 0 THEN << >>
        ELSE IF \E k \in 1..i - 1 : ocr.crops[k].rotation = ocr.crops[i].rotation
        THEN F[i - 1] ELSE Append(F[i - 1], ocr.crops[i].rotation)
  IN F[Len(ocr.crops)]

\* C1 as stated: for every successful call, whatever mergeLines and
\* rotationInfo are, the returned list is sorted ascending by the minimum Y
\* of each box, ties broken by the minimum X.
C1_ReturnedSortedAlways ==
  ocr.pc = "resolved" => SortedByMinYMinX(ocr.returned.v)

\* C1 as the code has it: with mergeLines=true the returned list is made of
\* one block per rotation tag (the merged results of the crops of that tag),
\* the blocks in order of first appearance of their tag among the crops,
\* and each block is sorted ascending by minimum Y, ties by minimum X; with
\* at most one tag the whole list is sorted.
C1_SortedPerRotationBlock ==
  (ocr.pc = "resolved" /\ ocr.resolved.mergeLines) =>
    LET blocks == [k \in 1..Len(TagsOfCrops) |->
                     MergeOcrResultsByLine(ResultsTagged(TagsOfCrops[k]), ocr.resolved)]
    IN /\ ocr.returned.v = Flatten(blocks)
       /\ \A k \in 1..Len(blocks) : SortedByMinYMinX(blocks[k])
       /\ (Len(TagsOfCrops) <= 1 => SortedByMinYMinX(ocr.returned.v))

\* A merged call with crops of two rotation tags that returns a result
\* for each tag.
C1_Witness ==
  /\ ocr.pc = "resolved"
  /\ ocr.resolved.mergeLines
  /\ Len(TagsOfCrops) = 2
  /\ Len(ocr.returned.v) >= 3
  /\ ~SortedByMinYMinX(ocr.returned.v)

\* The number of crops one box gives: one per rotation, one without any.
Variants == IF Len(ocr.resolved.rotationInfo) = 0 THEN 1 ELSE Len(ocr.resolved.rotationInfo)

\* The box and the tag the code gives crop i when every box of the
\* horizontal list, then every box of the free list, is expanded per rotation
\* in rotationInfo order.
DiscoveryCrop(i) ==
  LET boxes == ocr.horizontalList \o ocr.freeList
      b == ((i - 1) \div Variants) + 1
      r == ((i - 1) % Variants) + 1
      image == IF b <= Len(ocr.horizontalList)
               THEN CropBox(ocr.image, boxes[b])
               ELSE CropFree(ocr.image, <<boxes[b]>>)[1].image
  IN IF Len(ocr.resolved.rotationInfo) = 0
     THEN [box |-> boxes[b], rotation |-> 0]
     ELSE [box |-> RotateBox(boxes[b], ocr.resolved.rotationInfo[r],
                             image.width, image.height),
           rotation |-> ocr.resolved.rotationInfo[r]]

\* What the decoder makes of the logits of run i.
DecodedRun(i) ==
  LET t == ocr.outputs[i] IN
  CtcGreedyDecode(t.data, t.shape[Len(t.shape) - 1], t.shape[Len(t.shape)],
                  ocr.recognizer.charset, OrElse(ocr.recognizer.blankIndex, 0),
                  Range(ocr.ignoreIndices))

\* C2: with mergeLines=false the call returns exactly one result per crop
\* in crop discovery order (horizontal boxes first, then free boxes, each
\* expanded per rotation in rotationInfo order), nothing merged, dropped or
\* reordered, and as many results as recognizer runs.
C2_OneResultPerCropInOrder ==
  (ocr.pc = "resolved" /\ ~ocr.resolved.mergeLines) =>
    /\ Len(ocr.returned.v) = (Len(ocr.horizontalList) + Len(ocr.freeList)) * Variants
    /\ Len(ocr.returned.v) = ocr.recognizerRuns
    /\ \A i \in 1..Len(ocr.returned.v) :
         /\ ocr.returned.v[i].box = DiscoveryCrop(i).box
         /\ ocr.crops[i].rotation = DiscoveryCrop(i).rotation
         /\ ocr.returned.v[i].text = DecodedRun(i).text
         /\ ocr.returned.v[i].confidence = DecodedRun(i).confidence

\* An unmerged call with a horizontal and a free box, two rotations each,
\* one crop of which decoded to the empty text.
C2_Witness ==
  /\ ocr.pc = "resolved"
  /\ ~ocr.resolved.mergeLines
  /\ Len(ocr.horizontalList) >= 1
  /\ Len(ocr.freeList) >= 1
  /\ Len(ocr.resolved.rotationInfo) = 2
  /\ Len(ocr.returned.v) = 4
  /\ \E i \in 1..4 : ocr.returned.v[i].text = << >>

\* C3: when the detector run or the run of any crop fails (the session
\* rejects, an output tensor is missing, the recognizer output is not
\* float32), the call rejects with that error, delivers no result at all,
\* also none of the crops decoded before, and starts no model run after it.
C3_FailureRejectsWholeCall ==
  /\ [](ocr.error # "" => (ocr.pc = "rejected" /\ ~ocr.returned.some))
  /\ [][ocr.error # "" =>
          /\ ocr'.detectorRuns = ocr.detectorRuns
          /\ ocr'.recognizerRuns = ocr.recognizerRuns
          /\ ocr'.error = ocr.error]_vars

\* A call that failed at a crop after another crop had been decoded.
C3_Witness ==
  /\ ocr.pc = "rejected"
  /\ ocr.error = "Recognizer output must be float32."
  /\ Len(ocr.results) >= 1
  /\ ocr.recognizerRuns = Len(ocr.results) + 1
  /\ ~ocr.returned.some

\* C4: when detector post-processing yields no box (empty horizontal list
\* and empty free list), the call resolves with an empty list, for either
\* value of mergeLines, without throwing and without a recognizer run.
C4_NoBoxesResolveEmpty ==
  (ocr.detected /\ ocr.horizontalList = << >> /\ ocr.freeList = << >>) =>
    /\ ocr.pc = "resolved"
    /\ ocr.returned = Some(<< >>)
    /\ ocr.error = ""
    /\ ocr.recognizerRuns = 0

\* A detection whose only raw box is dropped by minSize, with mergeLines on.
C4_Witness ==
  /\ ocr.detected
  /\ ocr.horizontalList = << >>
  /\ ocr.freeList = << >>
  /\ ocr.resolved.mergeLines
  /\ ocr.pc = "resolved"
  /\ ocr.returned = Some(<< >>)

(***************************************************************************)
(* Claims about box grouping                                               *)
(***************************************************************************)
\* C11: grouping is idempotent: groupTextBoxes applied to the boxes it
\* returned (horizontal list followed by free list), with the same options,
\* returns those same boxes.
C11_GroupingIdempotent ==
  grp.pc = "regrouped" => BoxesOf(grp.second) = BoxesOf(grp.first)

\* The second grouping ran on a result that held at least one box.
C11_Witness ==
  /\ grp.pc = "regrouped"
  /\ Len(BoxesOf(grp.first)) > 0

(***************************************************************************)
(* Claims about the line merge                                             *)
(***************************************************************************)
\* The members of a line in ascending minX (ties by minY).
OrderedItems(line) ==
  Items(SortKeyed([i \in 1..Len(line.items) |->
          [key |-> <<line.items[i].minX, line.items[i].minY>>, item |-> line.items[i]]]))

\* The pixel gap between the i-th and the next member of a line is at most
\* xThs times the height of the line.
GapWithin(line, i, options) ==
  LET ordered == OrderedItems(line) IN
  (ordered[i + 1].minX - ordered[i].maxX) * options.xThs.den
    <= options.xThs.num * line.height

\* The first members of the runs of a line: the first member of the line
\* and every member whose gap to the member before it exceeds the threshold.
RunStarts(line, options) ==
  {s \in 1..Len(line.items) : s = 1 \/ ~GapWithin(line, s - 1, options)}

\* The members of the run that starts at s.
RunFrom(line, s, options) ==
  LET ordered == OrderedItems(line)
      ends == {e \in s..Len(ordered) : e = Len(ordered) \/ ~GapWithin(line, e, options)}
  IN SubSeq(ordered, s, MinOf(ends))

MemberTexts(run) == [i \in 1..Len(run) |-> run[i].result.text]

\* Box and confidence of the result merged from a run.
UnionAndMinimum(result, run) ==
  /\ result.box = RectBox(MinOf({run[i].minX : i \in 1..Len(run)}),
                          MinOf({run[i].minY : i \in 1..Len(run)}),
                          MaxOf({run[i].maxX : i \in 1..Len(run)}),
                          MaxOf({run[i].maxY : i \in 1..Len(run)}))
  /\ \E i \in 1..Len(run) : result.confidence = run[i].result.confidence
  /\ \A i \in 1..Len(run) : result.confidence <= run[i].result.confidence

\* The text joined from a run: of all members, or of the members that have
\* a text.
JoinedText(run, withEmpty) ==
  IF withEmpty THEN JoinTexts(MemberTexts(run))
  ELSE JoinTexts(SelectSeq(MemberTexts(run), NonEmptyText))

\* Every line yields one result per run, in run order, each with the box,
\* the confidence and the text of its run, and each is returned.
RunsMerged(withEmpty) ==
  mrg.pc = "returned" =>
    \A k \in 1..Len(mrg.lines) :
      LET line == mrg.lines[k]
          starts == RunStarts(line, mrg.options)
      IN /\ Len(mrg.mergedLines[k]) = Cardinality(starts)
         /\ \A s \in starts :
              LET j == Cardinality({t \in starts : t <= s})
                  run == RunFrom(line, s, mrg.options)
                  result == mrg.mergedLines[k][j].result
              IN /\ UnionAndMinimum(result, run)
                 /\ result.text = JoinedText(run, withEmpty)
                 /\ \E r \in 1..Len(mrg.returned) : mrg.returned[r] = result

\* C12: on one line two results adjacent in ascending minX are in the same
\* merged result iff the gap between them is at most xThs times the line
\* height; the merged text is the members' texts joined by one space from
\* left to right, the confidence the least member confidence, the box the
\* axis-aligned union of the member boxes.
C12_RunsMergedTextsJoined == RunsMerged(TRUE)

\* C12 as the code has it: the members without text are left out of the
\* join, so that no merged text holds two spaces in a row or starts or ends
\* with a space.
C12_RunsMergedNonEmptyTextsJoined == RunsMerged(FALSE)

\* A line of three results that is cut into two runs, one of them holding a
\* member without text next to a member with text.
C12_Witness ==
  /\ mrg.pc = "returned"
  /\ \E k \in 1..Len(mrg.lines) :
       /\ Len(mrg.lines[k].items) = 3
       /\ Len(mrg.mergedLines[k]) = 2
       /\ \E s \in RunStarts(mrg.lines[k], mrg.options) :
            LET run == RunFrom(mrg.lines[k], s, mrg.options) IN
            /\ Len(run) = 2
            /\ \E i \in 1..2 : run[i].result.text = << >>
            /\ \E i \in 1..2 : run[i].result.text # << >>

\* The first edge of the box of a result rises by more than maxAngleDeg.
ExceedsMaxAngle(result, maxAngleDeg) ==
  LET rise == Abs(result.box[2][2] - result.box[1][2])
      run == Abs(result.box[2][1] - result.box[1][1])
  IN /\ maxAngleDeg < 90
     /\ rise * TanDeg(maxAngleDeg).den > TanDeg(maxAngleDeg).num * run

\* C13: a result whose angle exceeds maxAngleDeg is a member of no line, so
\* of no merged result, and is returned with its box, text and confidence;
\* the members of the lines are the other results, and two of them that are
\* neighbours on a line within the gap threshold are covered by one returned
\* result.
C13_SteepResultsPassThrough ==
  (mrg.pc = "returned" /\ mrg.options.mergeLines) =>
    /\ \A i \in 1..Len(mrg.results) :
         LET result == mrg.results[i] IN
         IF ExceedsMaxAngle(result, mrg.options.maxAngleDeg)
         THEN /\ \A k \in 1..Len(mrg.lines) : \A m \in 1..Len(mrg.lines[k].items) :
                   mrg.lines[k].items[m].result # result
              /\ \E r \in 1..Len(mrg.returned) : mrg.returned[r] = result
         ELSE \E k \in 1..Len(mrg.lines) : \E m \in 1..Len(mrg.lines[k].items) :
                   mrg.lines[k].items[m].result = result
    /\ Len(mrg.returned)
         = SumOf([k \in 1..Len(mrg.lines) |-> Len(mrg.mergedLines[k])])
           + Cardinality({i \in 1..Len(mrg.results) :
                            ExceedsMaxAngle(mrg.results[i], mrg.options.maxAngleDeg)})
    /\ \A k \in 1..Len(mrg.lines) : \A i \in 1..(Len(mrg.lines[k].items) - 1) :
         GapWithin(mrg.lines[k], i, mrg.options) =>
           \E r \in 1..Len(mrg.returned) :
             LET ordered == OrderedItems(mrg.lines[k])
                 merged == mrg.returned[r]
             IN /\ MinOf(Xs(merged.box)) <= ordered[i].minX
                /\ MaxOf(Xs(merged.box)) >= ordered[i + 1].maxX
                /\ MinOf(Ys(merged.box)) <= Min2(ordered[i].minY, ordered[i + 1].minY)
                /\ MaxOf(Ys(merged.box)) >= Max2(ordered[i].maxY, ordered[i + 1].maxY)

\* With maxAngleDeg = 10: the two results at 9.91 degrees are merged into
\* one, the result at 10.10 degrees next to them is returned as it was.
C13_Witness ==
  /\ mrg.pc = "returned"
  /\ mrg.options.mergeLines
  /\ mrg.options.maxAngleDeg = 10
  /\ mrg.results = <<ResultPool[8], ResultPool[9], ResultPool[10]>>
  /\ Len(mrg.returned) = 2
  /\ \E r \in 1..2 : mrg.returned[r].text = <<"g", " ", "h">>
  /\ \E r \in 1..2 : mrg.returned[r] = ResultPool[10]

\* The rotation tags the crops of the call carry.
TagSet == {ocr.results[i].rotation : i \in 1..Len(ocr.results)}

\* The crops that carry the tag.
Tagged(rotation) == {i \in 1..Len(ocr.results) : ocr.results[i].rotation = rotation}

\* The length of the texts of the crops in S joined by single spaces, the
\* empty texts left out.
JoinedLength(S) ==
  LET withText == {i \in S : Len(ocr.results[i].text) > 0}
      letters == SumOf([i \in 1..Len(ocr.results) |->
                          IF i \in withText THEN Len(ocr.results[i].text) ELSE 0])
  IN IF withText = {} THEN 0 ELSE letters + Cardinality(withText) - 1

\* The result is merged from the crops in S: its box is the union of their
\* boxes, its confidence their least, its text as long as their joined texts.
MergedFrom(result, S) ==
  /\ MinOf(Xs(result.box)) = MinOf(UNION {Xs(ocr.results[i].box) : i \in S})
  /\ MaxOf(Xs(result.box)) = MaxOf(UNION {Xs(ocr.results[i].box) : i \in S})
  /\ MinOf(Ys(result.box)) = MinOf(UNION {Ys(ocr.results[i].box) : i \in S})
  /\ MaxOf(Ys(result.box)) = MaxOf(UNION {Ys(ocr.results[i].box) : i \in S})
  /\ result.confidence = MinOf({ocr.results[i].confidence : i \in S})
  /\ Len(result.text) = JoinedLength(S)

\* C14: with mergeLines=true and rotationInfo not empty no returned result
\* is merged from crops of different rotation tags: each is merged from
\* crops of one exact rotation value, and every tag keeps a result of its
\* own, also when two tags are the same orientation (0 and 360).
C14_MergedWithinOneRotation ==
  (ocr.pc = "resolved" /\ ocr.resolved.mergeLines /\ Len(ocr.resolved.rotationInfo) > 0) =>
    /\ \A r \in 1..Len(ocr.returned.v) :
         \E rotation \in TagSet : \E S \in SUBSET Tagged(rotation) :
           S # {} /\ MergedFrom(ocr.returned.v[r], S)
    /\ Len(ocr.returned.v) >= Cardinality(TagSet)
    /\ \A rotation \in TagSet :
         \E r \in 1..Len(ocr.returned.v) : \E S \in SUBSET Tagged(rotation) :
           S # {} /\ MergedFrom(ocr.returned.v[r], S)

\* A merged call with rotationInfo [0, 360] on one box: two crops with the
\* same box and text, one result for each tag.
C14_Witness ==
  /\ ocr.pc = "resolved"
  /\ ocr.resolved.mergeLines
  /\ ocr.resolved.rotationInfo = <<0, 360>>
  /\ Len(ocr.results) = 2
  /\ ocr.results[1].box = ocr.results[2].box
  /\ Len(ocr.results[1].text) > 0
  /\ ocr.results[1].text = ocr.results[2].text
  /\ Len(ocr.returned.v) = 2

(***************************************************************************)
(* Claims about the trace steps and about calls in flight together         *)
(***************************************************************************)
\* The step names as the specification lists them.
ListedStepNames ==
  {"load_image", "ocr_options", "resize_aspect_ratio", "pad_to_stride",
   "normalize_mean_variance", "to_tensor_layout", "detector_input_final",
   "detector_raw_output_text", "detector_raw_output_link", "heatmap_text",
   "heatmap_link", "threshold_and_box_decode", "adjust_coordinates_to_original",
   "detector_boxes_horizontal", "detector_boxes_free", "detector_boxes_ordered",
   "recognizer_results_pre_merge", "recognizer_results_post_merge"}

\* C16: a call with a trace writer that completes has handed the writer a
\* step for each of the 18 listed names, each once.
C16_AllListedStepsOnce ==
  (trc.pc = "resolved" /\ trc.writer) =>
    \A name \in ListedStepNames :
      Cardinality({i \in 1..Len(trc.steps) : trc.steps[i] = name}) = 1

\* C16 as the code has it: the steps come in one fixed order, ocr_options
\* first; each is handed over before the call goes on, the first seven
\* before the detector run, the next four before the boxes are decoded,
\* five more before the first recognizer run, recognizer_results_pre_merge
\* after the last run; a completed call has written the first 17 names, and
\* recognizer_results_post_merge after them exactly when mergeLines is true.
C16_StepsInOrderPostMergeIfMerging ==
  /\ [](trc.pc # "idle" =>
          /\ Len(trc.steps) <= Len(TraceNames)
          /\ trc.steps = SubSeq(TraceNames, 1, Len(trc.steps))
          /\ (trc.writer => Len(trc.steps) = trc.at)
          /\ (trc.pc = "detector" => trc.at = StepsBeforeDetector)
          /\ (trc.detectorRuns = 0 => trc.at <= StepsBeforeDetector)
          /\ (~trc.detected => trc.at <= StepsBeforeCrops)
          /\ (trc.pc = "recognizer" => trc.at = StepsBeforeCrops)
          /\ (trc.at > StepsBeforeCrops => trc.recognizerRuns = Len(trc.crops))
          /\ (trc.pc = "resolved" /\ trc.writer =>
                Len(trc.steps) = IF trc.resolved.mergeLines THEN Len(TraceNames)
                                 ELSE Len(TraceNames) - 1))
  /\ [][trc.pc # "idle" =>
          /\ Len(trc'.steps) <= Len(trc.steps) + 1
          /\ (Len(trc'.steps) = Len(trc.steps) + 1 => trc'.pc = "trace")
          /\ (trc'.detectorRuns > trc.detectorRuns \/ trc'.recognizerRuns > trc.recognizerRuns
                => trc'.steps = trc.steps)]_vars

\* A call with a writer and mergeLines=false that completed after two
\* recognizer runs.
C16_Witness ==
  /\ trc.pc = "resolved"
  /\ trc.writer
  /\ ~trc.resolved.mergeLines
  /\ trc.recognizerRuns = 2
  /\ Len(trc.steps) = Len(TraceNames) - 1

\* The frame of the call of t run alone to the point t has reached with the
\* session outputs t was given: the options resolved against the defaults as
\* the module defines them, the detector outputs, then each recognizer output.
Alone(t) ==
  LET start == [TracedFrame(t.options, t.writer) EXCEPT
                  !.resolved = ResolveOcrOptions(t.options)]
      F[i \in 0..Len(t.outputs)] ==
        IF i = 0 THEN AfterDetector(start, t.heat, t.raw)
        ELSE AfterRecognizer(F[i - 1], Some(t.outputs[i]))
  IN F[Len(t.outputs)]

\* C15: each of two calls in flight together on the same handles returns
\* the list it returns when run alone on the same session outputs, and no
\* call writes the shared default options record.
C15_ConcurrentCallsAsAlone ==
  pair.pc = "calls" =>
    /\ pair.defaults = DEFAULT_OCR_OPTIONS
    /\ \A c \in Callers :
         LET t == pair.calls[c] IN
         /\ (t.pc # "start" => Deref(t, pair.defaults).resolved = ResolveOcrOptions(t.options))
         /\ (t.pc = "resolved" =>
               /\ Alone(t).pc = "resolved"
               /\ t.returned = Alone(t).returned)

\* Two calls that ran interleaved and both returned two results, one
\* with its own options (unmerged, in crop order) and one reading the
\* shared defaults (merged and sorted).
C15_Witness ==
  /\ pair.pc = "calls"
  /\ pair.overlapped
  /\ \A c \in Callers : pair.calls[c].pc = "resolved" /\ Len(pair.calls[c].returned.v) = 2
  /\ \E c \in Callers : pair.calls[c].shared
  /\ \E c \in Callers : ~pair.calls[c].shared
  /\ pair.calls[1].returned # pair.calls[2].returned

(***************************************************************************)
(* Claims about the node package: detector adapter and model loading       *)
(***************************************************************************)
\* The three accepted forms of the outputs of a detector session.
IsNamedPair(outputs) == Named(outputs, "text") # {} /\ Named(outputs, "link") # {}

ChannelsLast(outputs) ==
  {i \in 1..Len(outputs) :
     LET t == outputs[i].tensor IN
     t.type = "float32" /\ Len(t.dims) = 4 /\ t.dims[1] = 1 /\ t.dims[4] = 2}

ChannelsFirst(outputs) ==
  {i \in 1..Len(outputs) :
     LET t == outputs[i].tensor IN
     t.type = "float32" /\ Len(t.dims) = 4 /\ t.dims[1] = 1 /\ t.dims[2] = 2}

\* Channel c (0 text, 1 link) of a tensor [1,H,W,2], as a heatmap [1,H,W].
LastChannel(t, c) ==
  [type |-> "float32", shape |-> <<1, t.dims[2], t.dims[3]>>,
   data |-> [i \in 1..(t.dims[2] * t.dims[3]) |-> t.data[2 * (i - 1) + c + 1]]]

\* Channel c of a tensor [1,2,H,W], as a heatmap [1,H,W].
FirstChannel(t, c) ==
  [type |-> "float32", shape |-> <<1, t.dims[3], t.dims[4]>>,
   data |-> [i \in 1..(t.dims[3] * t.dims[4]) |-> t.data[c * t.dims[3] * t.dims[4] + i]]]

\* C17: the adapter returns the pair (text, link) of two equally shaped
\* tensors for each accepted form of the outputs - two tensors named text
\* and link, one tensor [1,H,W,2], one tensor [1,2,H,W], channel 0 the text
\* and channel 1 the link, for every H and W - and throws for every other
\* set of outputs.
C17_AdapterNormalizesOrThrows ==
  adp.pc = "done" =>
    LET outputs == adp.outputs
        result == adp.result
    IN /\ (result.ok => result.text.shape = result.link.shape)
       /\ (IsNamedPair(outputs) => result.ok)
       /\ (~IsNamedPair(outputs) =>
             /\ \A i \in ChannelsLast(outputs) :
                  /\ result.ok
                  /\ result.text = LastChannel(outputs[i].tensor, 0)
                  /\ result.link = LastChannel(outputs[i].tensor, 1)
             /\ \A i \in ChannelsFirst(outputs) :
                  /\ result.ok
                  /\ result.text = FirstChannel(outputs[i].tensor, 0)
                  /\ result.link = FirstChannel(outputs[i].tensor, 1)
             /\ (ChannelsLast(outputs) = {} /\ ChannelsFirst(outputs) = {} => ~result.ok))

\* A set of outputs that is none of the three forms, a tensor for a batch
\* of two, and the adapter has returned a pair for it.
C17_Witness ==
  /\ adp.pc = "done"
  /\ ~IsNamedPair(adp.outputs)
  /\ ChannelsLast(adp.outputs) = {}
  /\ ChannelsFirst(adp.outputs) = {}
  /\ adp.result.ok

\* C18: loading from a path that does not exist or cannot be accessed
\* rejects with an error whose message contains the model path; loading
\* from bytes in memory that fail to parse rejects with an error that names
\* the in-memory bytes and contains the message of the runtime.
C18_LoadErrorsNameTheSource ==
  /\ (ldr.pc \in {"loaded", "rejected"} /\ ldr.model.isPath /\ ldr.accessError # "") =>
       /\ ldr.pc = "rejected"
       /\ Contains(ldr.error, ldr.model.path)
  /\ (ldr.pc = "rejected" /\ ~ldr.model.isPath) =>
       /\ Contains(ldr.error, <<"in-memory model bytes">>)
       /\ Contains(ldr.error, ldr.runtimeMessage)

\* The load of /tmp/missing-model.onnx, which access reports missing and the
\* download answers with 404, has rejected.
C18_Witness ==
  /\ ldr.pc = "rejected"
  /\ ldr.model.isPath
  /\ ldr.model.path = <<"/", "tmp", "/", "missing-model", ".onnx">>
  /\ ldr.accessError = "ENOENT"
  /\ Contains(ldr.error, <<"Failed to download model from ">>)
  /\ ~Contains(ldr.error, ldr.model.path)

(***************************************************************************)
(* Claims about the resolution of options                                  *)
(***************************************************************************)
\* The fields a caller gave, and the recognizer fields among them.
GivenFields(options) == IF options.some THEN options.v ELSE << >>

GivenRecognizerFields(options) ==
  IF "recognizer" \in DOMAIN GivenFields(options)
  THEN GivenFields(options).recognizer ELSE << >>

\* C19: the options a call works with hold, for every option the caller did
\* not give, the default value, and for every given option the given value;
\* the nested recognizer record holds each given recognizer field and the
\* default of every other one; the shared default options record is the
\* same before, during and after every call.
C19_DefaultsKeptRecognizerMerged ==
  pair.pc = "calls" =>
    /\ pair.defaults = DEFAULT_OCR_OPTIONS
    /\ \A c \in Callers :
         LET t == pair.calls[c]
             r == Deref(t, pair.defaults).resolved
             top == DOMAIN DEFAULT_OCR_OPTIONS \ {"recognizer"}
         IN  t.pc # "start" =>
               /\ DOMAIN r = DOMAIN DEFAULT_OCR_OPTIONS
               /\ \A k \in top :
                    r[k] = IF k \in DOMAIN GivenFields(t.options)
                           THEN GivenFields(t.options)[k]
                           ELSE DEFAULT_OCR_OPTIONS[k]
               /\ DOMAIN r.recognizer = DOMAIN DEFAULT_OCR_OPTIONS.recognizer
               /\ \A f \in DOMAIN DEFAULT_OCR_OPTIONS.recognizer :
                    r.recognizer[f] =
                      IF f \in DOMAIN GivenRecognizerFields(t.options)
                      THEN GivenRecognizerFields(t.options)[f]
                      ELSE DEFAULT_OCR_OPTIONS.recognizer[f]

\* Two calls have returned: one gave only the recognizer's inputHeight and
\* worked with that height and the default width, the other gave no
\* options and read the shared defaults.
C19_Witness ==
  /\ pair.pc = "calls"
  /\ \A c \in Callers : pair.calls[c].pc = "resolved"
  /\ pair.calls[1].options = Some([recognizer |-> [inputHeight |-> 32]])
  /\ pair.calls[1].resolved.recognizer.inputHeight = 32
  /\ pair.calls[1].resolved.recognizer.inputWidth = 100
  /\ pair.calls[1].resolved.canvasSize = 2560
  /\ ~pair.calls[2].options.some
  /\ pair.calls[2].shared
  /\ pair.defaults = DEFAULT_OCR_OPTIONS

(***************************************************************************)
(* Claims about the detector preprocessing of rasters                      *)
(***************************************************************************)
\* Where the byte of colour k (0 red, 1 green, 2 blue) of a pixel lies
\* among the bytes of that pixel.
ColourOffset(channelOrder, k) ==
  CASE channelOrder = "gray" -> 0
    [] channelOrder \in {"bgr", "bgra"} -> 2 - k
    [] OTHER -> k

\* The tensor has shape [1, 3, H, W] over the padded raster, and the value
\* of colour k of pixel p is the normalized byte of that colour of pixel p
\* of the padded raster.
FromSamePixel(out) ==
  LET padded == out.padded
      plane == padded.height * padded.width
  IN /\ out.input.shape = <<1, 3, padded.height, padded.width>>
     /\ Len(out.input.data) = 3 * plane
     /\ \A p \in 0..(plane - 1), k \in 0..2 :
          out.input.data[k * plane + p + 1] =
            Normalized(Some(padded.data[p * padded.channels
                                        + ColourOffset(padded.channelOrder, k) + 1]),
                       flt.options.mean[k + 1], flt.options.std[k + 1])

\* C20: for a raster of every channel layout detectorPreprocess emits a
\* 3-channel tensor in which the three values of each pixel are computed
\* from the bytes of that same pixel alone, read inside the data buffer,
\* bgr and bgra swapped to RGB order.
C20_ThreeChannelsFromSamePixel ==
  flt.pc = "done" => FromSamePixel(flt.out.v)

\* The same for the rasters of three and four channels only.
ColourRastersFromSamePixel ==
  flt.pc = "done" /\ flt.image.channelOrder # "gray" => FromSamePixel(flt.out.v)

\* A gray raster of two pixels with bytes 0 and 17 was preprocessed without
\* resizing or padding: the green value of the first pixel is the
\* normalized byte of the second pixel, and the green and blue values of
\* the second pixel are NaN.
C20_Witness ==
  /\ flt.pc = "done"
  /\ flt.image.channelOrder = "gray"
  /\ flt.out.v.padded.data = <<0, 17>>
  /\ flt.out.v.input.shape = <<1, 3, 1, 2>>
  /\ flt.out.v.input.data[1] = Normalized(Some(0), flt.options.mean[1], flt.options.std[1])
  /\ flt.out.v.input.data[3] = Normalized(Some(17), flt.options.mean[2], flt.options.std[2])
  /\ flt.out.v.input.data[4] = NaN
  /\ flt.out.v.input.data[6] = NaN

(***************************************************************************)
(* Claims about the boxes that grouping returns                            *)
(***************************************************************************)
\* max(width, height) of a box, in half pixels.
LongSide(box) ==
  Max2(MaxOf(Xs(box)) - MinOf(Xs(box)), MaxOf(Ys(box)) - MinOf(Ys(box)))

\* C22: every box of the horizontal list and of the free list that
\* groupTextBoxes returns has max(width, height) strictly greater than
\* minSize, whatever minSize is, 0 included.
C22_BoxesLargerThanMinSize ==
  grp.pc # "boxes" =>
    \A i \in 1..Len(BoxesOf(grp.first)) :
      LongSide(BoxesOf(grp.first)[i]) > grp.options.minSize * Px

\* With minSize 0 the grouping returned a horizontal box whose four corners
\* are the same point.
C22_Witness ==
  /\ grp.pc = "grouped"
  /\ grp.options.minSize = 0
  /\ Len(grp.first.horizontalList) > 0
  /\ LongSide(grp.first.horizontalList[1]) = 0

\* The same for every minSize other than 0.
NonZeroMinSizeFilters ==
  grp.pc # "boxes" /\ grp.options.minSize # 0 =>
    \A i \in 1..Len(BoxesOf(grp.first)) :
      LongSide(BoxesOf(grp.first)[i]) > grp.options.minSize * Px

(***************************************************************************)
(* Claims about the order of the grouped boxes and of their recognition    *)
(***************************************************************************)
\* The truncated raw boxes of the detection, in discovery order.
RawPolys == [i \in 1..Len(ocr.raw) |-> PolyOf(ocr.raw[i])]

IsFlat(poly) == IsHorizontalPoly(poly, ocr.resolved)

IsSlanted(poly) == ~IsHorizontalPoly(poly, ocr.resolved)

\* The text lines of the detection: the horizontal entries by ascending
\* y-centre, cut where the centre leaves the open line.
TextLines ==
  LET flat == SelectSeq(RawPolys, IsFlat)
      sorted == Items(SortKeyed([i \in 1..Len(flat) |->
                  [key |-> <<HorizontalEntry(flat[i]).yCenter2, 0>>,
                   item |-> HorizontalEntry(flat[i])]]))
  IN CombineLines(sorted, 1, << >>, << >>, ocr.resolved)

\* The runs of one text line: its entries from left to right, cut where an
\* entry does not join the open run.
RunsOfLine(line) ==
  IF Len(line) = 1 THEN <<line>>
  ELSE SplitRuns(Items(SortKeyed([i \in 1..Len(line) |->
                   [key |-> <<line[i].xMin, 0>>, item |-> line[i]]])),
                 1, << >>, << >>, ocr.resolved)

\* Every merged box with the number of its line and the smallest xMin of
\* the entries of its run, line after line and run after run; the boxes
\* that the minSize filter drops are left out.
KeyedBoxes(lines) ==
  LET all == Flatten([k \in 1..Len(lines) |->
               LET runs == RunsOfLine(lines[k]) IN
               [r \in 1..Len(runs) |->
                  LET m == MergeRun(runs[r], ocr.resolved) IN
                  [line |-> k,
                   left |-> MinOf({runs[r][i].xMin : i \in 1..Len(runs[r])}),
                   box |-> RectBox(m.xMin, m.yMin, m.xMax, m.yMax)]]])
      Kept(keyed) == ocr.resolved.minSize = 0 \/ HorizontalLargeEnough(keyed.box, ocr.resolved)
  IN SelectSeq(all, Kept)

\* Every entry of an earlier line has its y-centre at or above that of
\* every entry of a later line.
LinesByAscendingCentre(lines) ==
  \A k \in 1..Len(lines), l \in 1..Len(lines) :
    k < l => \A i \in 1..Len(lines[k]), j \in 1..Len(lines[l]) :
               lines[k][i].yCenter2 <= lines[l][j].yCenter2

\* The horizontal list is the list of the merged boxes, line after line.
HorizontalListLineMajor(lines, keyed) ==
  /\ ocr.horizontalList = [i \in 1..Len(keyed) |-> keyed[i].box]
  /\ \A i \in 1..Len(keyed), j \in 1..Len(keyed) :
       i < j => keyed[i].line <= keyed[j].line
  /\ LinesByAscendingCentre(lines)

\* The free list holds the slanted raw boxes, widened, in discovery order.
FreeListInDiscoveryOrder ==
  LET slanted == SelectSeq(RawPolys, IsSlanted)
      widened == [i \in 1..Len(slanted) |-> FreeEntry(slanted[i], ocr.resolved)]
      Kept(box) == ocr.resolved.minSize = 0 \/ FreeLargeEnough(box, ocr.resolved)
  IN ocr.freeList = SelectSeq(widened, Kept)

\* The crops are those of the horizontal boxes followed by those of the
\* free boxes, and the results so far are those of the first crops.
HorizontalRecognizedFirst ==
  /\ Len(ocr.crops) = (Len(ocr.horizontalList) + Len(ocr.freeList)) * Variants
  /\ \A i \in 1..Len(ocr.crops) : ocr.crops[i].box = DiscoveryCrop(i).box
  /\ Len(ocr.results) <= Len(ocr.crops)
  /\ \A i \in 1..Len(ocr.results) : ocr.results[i].box = ocr.crops[i].box
  /\ ocr.pc = "recognizer" => ocr.k = Len(ocr.results) + 1

\* C23: the grouped horizontal list is line-major with the lines by
\* ascending y-centre, inside each line the boxes stand left to right by
\* their xMin, the free list keeps discovery order, and every horizontal
\* box is recognized before any free box.
C23_LineMajorLeftToRightByXMin ==
  ocr.detected =>
    LET lines == TextLines
        keyed == KeyedBoxes(lines)
    IN
    /\ HorizontalListLineMajor(lines, keyed)
    /\ \A i \in 1..Len(keyed), j \in 1..Len(keyed) :
         (i < j /\ keyed[i].line = keyed[j].line) =>
           MinOf(Xs(keyed[i].box)) <= MinOf(Xs(keyed[j].box))
    /\ FreeListInDiscoveryOrder
    /\ HorizontalRecognizedFirst

\* C23 as it holds: inside each line the boxes stand in the order of the
\* smallest xMin of the raw boxes merged into them, taken before the
\* margin is added; the rest as stated.
C23_LineMajorByLeftmostMember ==
  ocr.detected =>
    LET lines == TextLines
        keyed == KeyedBoxes(lines)
    IN
    /\ HorizontalListLineMajor(lines, keyed)
    /\ \A i \in 1..Len(keyed), j \in 1..Len(keyed) :
         (i < j /\ keyed[i].line = keyed[j].line) =>
           keyed[i].left <= keyed[j].left
    /\ FreeListInDiscoveryOrder
    /\ HorizontalRecognizedFirst

\* A call has returned whose detection found, in one text line, a high box
\* before a narrow box that begins left of it: the narrow box stands first
\* in the horizontal list although the high box, with its margin, begins
\* further left.
C23_Witness ==
  /\ ocr.pc = "resolved"
  /\ Len(ocr.raw) = 2
  /\ MinOf(Xs(ocr.raw[2])) < MinOf(Xs(ocr.raw[1]))
  /\ Len(TextLines) = 1
  /\ Len(ocr.horizontalList) = 2
  /\ MinOf(Xs(ocr.horizontalList[2])) < MinOf(Xs(ocr.horizontalList[1]))
  /\ Len(ocr.results) = Len(ocr.crops)

PadIdentityReached ==
  /\ pad.pc = "done"
  /\ pad.width = 3
  /\ pad.targetWidth = 2
  /\ pad.out = pad.data

(***************************************************************************)
(* Claims about cropBox                                                    *)
(***************************************************************************)
\* C25: for every box, also one with negative coordinates or lying partly
\* or wholly outside the image, cropBox copies only source pixels with
\* 0 <= x < width and 0 <= y < height, and the data of the image it
\* returns are width times height times channels long.
C25_CropReadsInsideImage ==
  crp.pc = "done" =>
    /\ \A q \in 1..Len(crp.out.v.reads) :
         /\ 0 <= crp.out.v.reads[q][1] /\ crp.out.v.reads[q][1] < crp.image.width
         /\ 0 <= crp.out.v.reads[q][2] /\ crp.out.v.reads[q][2] < crp.image.height
    /\ Len(crp.out.v.data) = crp.out.v.width * crp.out.v.height * crp.out.v.channels

\* A box wholly right of a gray raster two pixels wide and high, over its
\* first row, was cropped: the crop is one pixel, read at x = 2, y = 0,
\* and holds the byte of the source pixel x = 0, y = 1.
C25_Witness ==
  /\ crp.pc = "done"
  /\ crp.image.width = 2
  /\ crp.image.height = 2
  /\ crp.image.channels = 1
  /\ MinOf(Xs(crp.box)) >= 2 * Px
  /\ crp.out.v.reads = <<<<2, 0>>>>
  /\ crp.out.v.data = <<crp.image.data[3]>>

\* The length of the data alone.
CropDataLength ==
  crp.pc = "done" =>
    Len(crp.out.v.data) = crp.out.v.width * crp.out.v.height * crp.out.v.channels

\* A box that reaches into the image is read inside the image only.
CropOfOverlappingBoxInside ==
  (/\ crp.pc = "done"
   /\ MinOf(Xs(crp.box)) < crp.image.width * Px
   /\ MinOf(Ys(crp.box)) < crp.image.height * Px) =>
    \A q \in 1..Len(crp.out.v.reads) :
      /\ 0 <= crp.out.v.reads[q][1] /\ crp.out.v.reads[q][1] < crp.image.width
      /\ 0 <= crp.out.v.reads[q][2] /\ crp.out.v.reads[q][2] < crp.image.height

(***************************************************************************)
(* Claims about rotateImage                                                *)
(***************************************************************************)
\* The pixels of a raster.
PixelsOf(image) == (0..(image.width - 1)) \X (0..(image.height - 1))

\* The rotation read every pixel of the source exactly once and nothing
\* else, and swapped the sides for 90 and 270 degrees.
PureRemap(source, angleDeg, out) ==
  /\ Len(out.reads) = source.width * source.height
  /\ Range(out.reads) = PixelsOf(source)
  /\ Len(out.data) = Len(source.data)
  /\ IF NormalizedAngle(angleDeg) = 180
     THEN out.width = source.width /\ out.height = source.height
     ELSE out.width = source.height /\ out.height = source.width

\* C26: rotateImage by 90, 180 or 270 degrees on an image of any width and
\* height is a pure index remap (every source pixel appears once in the
\* output, no index outside the source is read, the sides are swapped for
\* 90 and 270), and the rotation by 90 and then by 270, by 270 and then by
\* 90, or twice by 180, gives the original image back.
C26_RotationIsRemapAndInverts ==
  NormalizedAngle(rot.angleDeg) \in {90, 180, 270} =>
    /\ rot.first.some => PureRemap(rot.image, rot.angleDeg, rot.first.v)
    /\ rot.second.some =>
         /\ PureRemap(Raster(rot.first.v), 360 - rot.angleDeg, rot.second.v)
         /\ Raster(rot.second.v) = rot.image

\* A gray raster two pixels wide and one high was rotated by 90 degrees:
\* both pixels of the result were read in the row y = 1, which the source
\* does not have, and hold 0.
C26_Witness ==
  /\ rot.pc = "rotated"
  /\ rot.angleDeg = 90
  /\ rot.image.width = 2
  /\ rot.image.height = 1
  /\ rot.image.channels = 1
  /\ rot.first.v.reads = <<<<0, 1>>, <<1, 1>>>>
  /\ rot.first.v.data = <<0, 0>>
  /\ rot.first.v.width = 1
  /\ rot.first.v.height = 2

\* The same for the rotations that do not start with a quarter turn to 90
\* degrees of a raster that is not square.
RemapAndInvertsBut90OfOblong ==
  (/\ NormalizedAngle(rot.angleDeg) \in {90, 180, 270}
   /\ (rot.image.width = rot.image.height \/ NormalizedAngle(rot.angleDeg) = 180)) =>
    /\ rot.first.some => PureRemap(rot.image, rot.angleDeg, rot.first.v)
    /\ rot.second.some =>
         /\ PureRemap(Raster(rot.first.v), 360 - rot.angleDeg, rot.second.v)
         /\ Raster(rot.second.v) = rot.image

\* The quarter turn to 270 degrees alone is a pure remap of every raster.
Turn270IsRemap ==
  (NormalizedAngle(rot.angleDeg) = 270 /\ rot.first.some) =>
    PureRemap(rot.image, rot.angleDeg, rot.first.v)

(***************************************************************************)
(* Claims about the order of the session runs of one call                  *)
(***************************************************************************)
\* Where the call stands: while the detector run is pending no recognizer
\* run has started; while a recognizer run is pending it is the run of
\* crop k, the only one pending, and the crops before k are decoded; the
\* call has resolved only with every crop run and decoded.
RunsOneAtATime ==
  /\ ocr.detectorRuns <= 1
  /\ ocr.pc \in {"start", "detector"} => ocr.recognizerRuns = 0 /\ ocr.results = << >>
  /\ ocr.pc = "detector" => ocr.detectorRuns = 1 /\ ~ocr.detected
  /\ ocr.recognizerRuns > 0 => ocr.detected /\ ocr.detectorRuns = 1
  /\ ocr.pc = "recognizer" =>
       /\ ocr.k \in 1..Len(ocr.crops)
       /\ ocr.recognizerRuns = ocr.k
       /\ Len(ocr.results) = ocr.k - 1
  /\ ocr.pc = "resolved" =>
       /\ ocr.detected
       /\ ocr.recognizerRuns = Len(ocr.crops)
       /\ Len(ocr.results) = Len(ocr.crops)
  /\ \A i \in 1..Len(ocr.results) : ocr.results[i].box = ocr.crops[i].box

\* A step starts at most one run, the run of the crop after the last
\* decoded one, and only a step that ends the run before it (or the
\* detector run) starts it; results are added one at a time, by the step
\* that ends a run.
RunStartsAfterRunEnds ==
  /\ ocr'.recognizerRuns \in {ocr.recognizerRuns, ocr.recognizerRuns + 1}
  /\ ocr'.recognizerRuns = ocr.recognizerRuns + 1 =>
       /\ ocr.pc \in {"detector", "recognizer"}
       /\ Len(ocr'.results) = ocr.recognizerRuns
       /\ ocr'.k = ocr.recognizerRuns + 1
  /\ Len(ocr'.results) \in {Len(ocr.results), Len(ocr.results) + 1}
  /\ Len(ocr'.results) = Len(ocr.results) + 1 => ocr.pc = "recognizer"
  /\ ocr'.pc = "resolved" => ocr.pc \in {"detector", "recognizer"}

\* C27: within one recognize call the detector run finishes before any
\* recognizer run starts, the recognizer runs happen one at a time in crop
\* order (the run for crop k+1 starts only after the run for crop k has
\* resolved and been decoded), and the call resolves only after the last
\* run.
C27_RunsSequentialInCropOrder ==
  []RunsOneAtATime /\ [][RunStartsAfterRunEnds]_vars

\* The run of the third crop is pending: two results are decoded and the
\* detector has run once.
C27_Witness ==
  /\ ocr.pc = "recognizer"
  /\ ocr.k = 3
  /\ ocr.recognizerRuns = 3
  /\ Len(ocr.results) = 2
  /\ ocr.detectorRuns = 1
  /\ Len(ocr.crops) >= 3

(***************************************************************************)
(* Claims about what the line merge keeps                                  *)
(***************************************************************************)
\* The orders in which the results at the indices in members can be listed.
OrdersOf(members) ==
  {order \in [1..Cardinality(members) -> members] :
     \A a, b \in 1..Cardinality(members) : order[a] = order[b] => a = b}

\* output is made of the input results at the indices in members: its box
\* spans exactly their boxes, its confidence is their smallest, and its
\* text joins their texts in some order.
MadeOf(output, results, members) ==
  LET m == BuildMetrics(output) IN
  /\ members # {}
  /\ \A i \in members :
       LET item == BuildMetrics(results[i]) IN
       /\ m.minX <= item.minX /\ item.maxX <= m.maxX
       /\ m.minY <= item.minY /\ item.maxY <= m.maxY
  /\ \E i \in members : BuildMetrics(results[i]).minX = m.minX
  /\ \E i \in members : BuildMetrics(results[i]).maxX = m.maxX
  /\ \E i \in members : BuildMetrics(results[i]).minY = m.minY
  /\ \E i \in members : BuildMetrics(results[i]).maxY = m.maxY
  /\ output.confidence = MinOf({results[i].confidence : i \in members})
  /\ \E order \in OrdersOf(members) :
       output.text = JoinTexts(SelectSeq([a \in 1..Cardinality(members) |->
                                            results[order[a]].text], NonEmptyText))

\* The ways to give every input result one output result it belongs to,
\* so that every output result is made of the inputs given to it.
Memberships(results, returned) ==
  {memberOf \in [1..Len(results) -> 1..Len(returned)] :
     \A r \in 1..Len(returned) :
       MadeOf(returned[r], results, {i \in 1..Len(results) : memberOf[i] = r})}

\* C29: with mergeLines = true every input result is a member of exactly
\* one output result, so that the output has at most as many results as the
\* input and each output box contains the boxes of its members.
NothingLostNothingDuplicated ==
  (mrg.pc = "returned" /\ mrg.options.mergeLines) =>
    /\ Memberships(mrg.results, mrg.returned) # {}
    /\ Len(mrg.returned) <= Len(mrg.results)

\* The call leaves the list it was given and the options as they were.
InputLeftUnmodified ==
  mrg.pc = "call" => mrg'.results = mrg.results /\ mrg'.options = mrg.options

C29_MergeLosesAndDuplicatesNothing ==
  []NothingLostNothingDuplicated /\ [][InputLeftUnmodified]_vars

\* Three results go in and two come out: the first two are merged into
\* "a b", the third is the only member of the other output.
C29_Witness ==
  /\ mrg.pc = "returned"
  /\ mrg.options.mergeLines
  /\ Len(mrg.results) = 3
  /\ Len(mrg.returned) = 2
  /\ \E r \in 1..2 : mrg.returned[r].text = <<"a", " ", "b">>
  /\ \E memberOf \in Memberships(mrg.results, mrg.returned) :
       memberOf[1] = memberOf[2] /\ memberOf[3] # memberOf[1]

(***************************************************************************)
(* Claims about the file-system trace writer                               *)
(***************************************************************************)
\* The entries of a step list are numbered 0, 1, 2, ... by their position
\* and no two of them name the same directory.
NumberedByPosition(steps) ==
  /\ \A i \in 1..Len(steps) : steps[i].index = i - 1
  /\ \A i, j \in 1..Len(steps) : steps[i].dir = steps[j].dir => i = j

\* C30: every added step has a distinct index equal to its position in the
\* step list of trace.json (0, 1, 2, ... without gaps or repeats) and a
\* distinct step directory, also when a second addStep call starts while
\* an earlier one is still awaiting its file writes.
C30_StepsNumberedByPosition ==
  fsw.pc = "writer" =>
    /\ NumberedByPosition(fsw.steps)
    /\ fsw.file.some => NumberedByPosition(fsw.file.v)

\* Two calls that overlapped have both resolved, and two steps are listed.
C30_Witness ==
  /\ fsw.pc = "writer"
  /\ fsw.overlapped
  /\ Len(fsw.calls) = 2
  /\ PendingCalls = {}
  /\ fsw.file.some
  /\ Len(fsw.file.v) = 2

\* With every call awaited before the next one is made the steps are
\* numbered by position, their directories differ, and trace.json lists
\* every step of a resolved call.
StepsNumberedWhenCallsAwaited ==
  (fsw.pc = "writer" /\ ~fsw.overlapped) =>
    /\ NumberedByPosition(fsw.steps)
    /\ fsw.file.some => NumberedByPosition(fsw.file.v)
    /\ PendingCalls = {} => fsw.file = (IF fsw.steps = << >> THEN NoSeq ELSE Some(fsw.steps))
    /\ Cardinality(fsw.dirs) = Len(fsw.steps) + Cardinality({c \in PendingCalls : fsw.calls[c].pc \in {"write"}})

\* Two overlapping calls have resolved and trace.json lists fewer steps
\* than were added.
TraceFileMissesAStep ==
  /\ fsw.pc = "writer"
  /\ PendingCalls = {}
  /\ fsw.file.some
  /\ Len(fsw.file.v) < Len(fsw.steps)

(***************************************************************************)
(* Claims about the components and boxes of detector post-processing       *)
(***************************************************************************)
\* The indices of the set pixels of the combined mask.
SetPixels == {p \in 0..(Len(det.combined) - 1) : det.combined[p + 1] = 1}

\* p and q are next to each other in a row or in a column of the map.
GridAdjacent(p, q, width) ==
  \/ p \div width = q \div width /\ Abs((p % width) - (q % width)) = 1
  \/ p % width = q % width /\ Abs((p \div width) - (q \div width)) = 1

\* The 4-connected component of p in the set pixels.
MaskComponentOf(p, pixels, width) ==
  LET grown[k \in 0..Cardinality(pixels)] ==
        IF k = 0 THEN {p}
        ELSE The({g \cup {q \in pixels : \E r \in g : GridAdjacent(q, r, width)} :
                    g \in {grown[k - 1]}})
  IN grown[Cardinality(pixels)]

\* The 4-connected components of the combined mask.
MaskComponents ==
  The({{MaskComponentOf(p, pixels, det.text.width) : p \in pixels} :
         pixels \in {SetPixels}})

\* The pixels of the k-th component the scan closed.
ClosedPixels(k) == {det.closed[k].pixels[j] : j \in 1..Len(det.closed[k].pixels)}

\* The components the scan closed are the components of the mask, each
\* found once, and every raw box was pushed for one of them: none for a
\* component with fewer than 10 pixels or with its highest text score
\* below textThreshold.
OneBoxPerComponentAtMost ==
  /\ {ClosedPixels(k) : k \in 1..Len(det.closed)} = MaskComponents
  /\ Len(det.closed) = Cardinality(MaskComponents)
  /\ Len(det.rawBoxesAdjusted) = Len(det.rawBoxesHeatmap)
  /\ Len(det.rawBoxesHeatmap)
       = Cardinality({k \in 1..Len(det.closed) : det.closed[k].emitted})
  /\ \A k \in 1..Len(det.closed) :
       (\/ Cardinality(ClosedPixels(k)) < 10
        \/ Below(MaxOf({det.text.data[p + 1] : p \in ClosedPixels(k)}),
                 det.options.textThreshold))
         => ~det.closed[k].emitted

\* The mask is one filled rectangle of at least 10 pixels whose text scores
\* are above textThreshold, in a map that is zero everywhere else.
IsolatedBlock ==
  LET pixels == SetPixels
      width == det.text.width
      xs == {p % width : p \in pixels}
      ys == {p \div width : p \in pixels}
  IN /\ Cardinality(pixels) >= 10
     /\ Cardinality(pixels) = (MaxOf(xs) - MinOf(xs) + 1) * (MaxOf(ys) - MinOf(ys) + 1)
     /\ \A p \in pixels : Above(det.text.data[p + 1], det.options.textThreshold)
     /\ \A p \in 0..(Len(det.combined) - 1) :
          p \notin pixels => det.text.data[p + 1] = 0 /\ det.link.data[p + 1] = 0

\* minSize is 0, or the one box that grouping makes of the raw boxes is
\* longer than minSize.
MinSizeKeepsTheBox ==
  LET all == BoxesOf(GroupTextBoxes(det.rawBoxesAdjusted,
                                    [det.options EXCEPT !.minSize = 0]))
  IN /\ Len(all) = 1
     /\ det.options.minSize = 0 \/ LongSide(all[1]) > det.options.minSize * Px

AllZeroMap ==
  \A i \in 1..Len(det.text.data) : det.text.data[i] = 0 /\ det.link.data[i] = 0

HullsAreUpright ==
  \A k \in 1..Len(det.closed) : det.closed[k].upright

\* A block with a box that minSize 20 removes, a component of 9 pixels, a
\* component whose highest text score is 0.5, and a link component that
\* passes the text threshold 0 and has no pixel left for a box.
BlockFilteredByMinSize ==
  /\ det.pc = "returned" /\ IsolatedBlock /\ det.options.minSize = 20
  /\ Len(det.rawBoxesAdjusted) = 1
  /\ Len(det.horizontalList) + Len(det.freeList) = 0

SmallComponentDropped ==
  /\ det.pc = "returned" /\ Len(det.closed) = 1 /\ det.closed[1].area = 9
  /\ det.closed[1].maxText = 900 /\ det.rawBoxesHeatmap = << >>

FaintComponentDropped ==
  /\ det.pc = "returned" /\ Len(det.closed) = 1 /\ det.closed[1].area = 12
  /\ det.closed[1].maxText = 500 /\ det.rawBoxesHeatmap = << >>

LinkComponentWithoutPoints ==
  /\ det.pc = "returned" /\ Len(det.closed) = 1 /\ det.closed[1].area = 12
  /\ det.closed[1].maxText = 0 /\ det.options.textThreshold = Rat(0, 1)
  /\ det.rawBoxesHeatmap = << >>

(***************************************************************************)
(* Claims about the flood fill                                             *)
(***************************************************************************)
\* The scan has started.
Scanning == det.pc \in {"scan", "fill", "returned"}

\* No pixel was put into the queue twice and none that is not set; the
\* queue was never written past its end.
EnqueuedOnceAtMost ==
  Scanning =>
    /\ \A i \in 1..Len(det.enqueued) : det.enqueued[i] <= det.combined[i]
    /\ det.qTail <= Len(det.queue)
    /\ det.qHead <= det.qTail

\* Every entry of the queue after the first is next to an earlier entry in
\* a row or in a column of the map.
QueueEntriesAdjacent ==
  det.pc = "fill" =>
    \A k \in 2..det.qTail :
      \E j \in 1..(k - 1) :
        GridAdjacent(det.queue[k], det.queue[j], det.text.width)

\* After the scan every set pixel was put into the queue exactly once, the
\* closed components are the 4-connected components of the mask, no pixel
\* is in two of them, and a pixel of a component of several pixels has a
\* pixel of the component beside, above or below it.
ComponentsPartitionTheMask ==
  det.pc = "returned" =>
    /\ \A i \in 1..Len(det.enqueued) : det.enqueued[i] = det.combined[i]
    /\ {ClosedPixels(k) : k \in 1..Len(det.closed)} = MaskComponents
    /\ SumOf([k \in 1..Len(det.closed) |-> Len(det.closed[k].pixels)])
         = Cardinality(SetPixels)
    /\ \A k \in 1..Len(det.closed) :
         Cardinality(ClosedPixels(k)) = Len(det.closed[k].pixels)
    /\ \A k \in 1..Len(det.closed) : \A p \in ClosedPixels(k) :
         \/ ClosedPixels(k) = {p}
         \/ \E q \in ClosedPixels(k) : GridAdjacent(p, q, det.text.width)

\* The scan has looked at every pixel and no fill is going on.
ScanOver ==
  /\ det.pc \in {"scan", "returned"}
  /\ det.i >= det.text.width * det.text.height

\* C28: the flood fill partitions the set pixels of the combined mask:
\* every set pixel is enqueued exactly once and belongs to exactly one
\* component, the queue never holds more entries than there are pixels, a
\* component never joins the last pixel of a row to the first pixel of the
\* next row, and the scan terminates for every map size.
C28_FloodFillPartitionsAndTerminates ==
  /\ [](EnqueuedOnceAtMost /\ QueueEntriesAdjacent /\ ComponentsPartitionTheMask)
  /\ <>ScanOver

\* The map with a column at the right edge and a column at the left edge
\* one row lower: the last pixel of the first row and the first pixel of
\* the second are set and lie in two components of five pixels.
C28_Witness ==
  /\ det.pc = "returned"
  /\ det.text.width = 4 /\ det.text.height = 6
  /\ det.combined[4] = 1 /\ det.combined[5] = 1
  /\ Len(det.closed) = 2
  /\ 3 \in ClosedPixels(1) /\ 4 \in ClosedPixels(2)
  /\ det.closed[1].area = 5 /\ det.closed[2].area = 5

====
